---------------------------- MODULE Spec2Model ----------------------------
(***************************************************************************)
(* A model of the OpenClaw coding agent: the conversation driver           *)
(* (openclaw/agent.py, run_agent) and the sandboxed tool executor it       *)
(* drives (openclaw/tools.py, ToolExecutor).                               *)
(*                                                                         *)
(* Python strings are sequences of one-character strings, so that prefix   *)
(* tests, concatenation and slicing are computed rather than assumed.      *)
(***************************************************************************)
EXTENDS Integers, Sequences, FiniteSets, TLC

(***************************************************************************)
(* String literals of the source.                                          *)
(***************************************************************************)

TASK_DONE_PREFIX ==
    <<"_","_","T","A","S","K","_","D","O","N","E","_","_",":">>

LLM_API_ERROR ==
    <<"L","L","M"," ","A","P","I"," ","e","r","r","o","r",":"," ">>

NO_RESPONSE ==
    <<"(","n","o"," ","r","e","s","p","o","n","s","e",")">>

EXHAUSTED_MESSAGE ==
    <<"A","g","e","n","t"," ","r","e","a","c","h","e","d"," ","m","a","x","i","m","u","m"," ",
      "i","t","e","r","a","t","i","o","n","s"," ","w","i","t","h","o","u","t"," ","c","o","m",
      "p","l","e","t","i","n","g"," ","t","h","e"," ","t","a","s","k",".">>

COMMIT_FEAT ==
    <<"f","e","a","t",":"," ">>

ERROR_PREFIX ==
    <<"E","r","r","o","r",":"," ">>

UNKNOWN_TOOL ==
    <<"U","n","k","n","o","w","n"," ","t","o","o","l"," ","'">>

PATH_ESCAPES ==
    <<"P","a","t","h"," ","e","s","c","a","p","e","s"," ","p","r","o","j","e","c","t"," ","r",
      "o","o","t",":"," ">>

FILE_NOT_FOUND ==
    <<"F","i","l","e"," ","n","o","t"," ","f","o","u","n","d",":"," ">>

NOT_A_FILE ==
    <<"N","o","t"," ","a"," ","f","i","l","e",":"," ">>

DIR_NOT_FOUND ==
    <<"D","i","r","e","c","t","o","r","y"," ","n","o","t"," ","f","o","u","n","d",":"," ">>

NOT_A_DIRECTORY ==
    <<"N","o","t"," ","a"," ","d","i","r","e","c","t","o","r","y",":"," ">>

OLD_NOT_FOUND ==
    <<"o","l","d","_","s","t","r","i","n","g"," ","n","o","t"," ","f","o","u","n","d"," ","i",
      "n"," ">>

OLD_FOUND ==
    <<"o","l","d","_","s","t","r","i","n","g"," ","f","o","u","n","d"," ">>

TIMES_IN ==
    <<" ","t","i","m","e","s"," ","i","n"," ">>

MUST_BE_UNIQUE ==
    <<","," ","m","u","s","t"," ","b","e"," ","u","n","i","q","u","e","."," ","P","r","o","v",
      "i","d","e"," ","m","o","r","e"," ","c","o","n","t","e","x","t",".">>

OK_WROTE ==
    <<"O","K",":"," ","W","r","o","t","e"," ">>

LINES_TO ==
    <<" ","l","i","n","e","s"," ","t","o"," ">>

OK_REPLACED ==
    <<"O","K",":"," ","R","e","p","l","a","c","e","d"," ","1"," ","o","c","c","u","r","r","e",
      "n","c","e"," ","i","n"," ">>

FILE_HDR ==
    <<"F","i","l","e",":"," ">>

LINES_TOTAL ==
    <<" ","l","i","n","e","s"," ","t","o","t","a","l",")","\n">>

DIRECTORY_HDR ==
    <<"D","i","r","e","c","t","o","r","y",":"," ">>

EMPTY_SUFFIX ==
    <<" ","(","e","m","p","t","y",")">>

BYTES_SUFFIX ==
    <<" ","b","y","t","e","s",")">>

NO_MATCHES ==
    <<"N","o"," ","m","a","t","c","h","e","s"," ","f","o","u","n","d"," ","f","o","r"," ","'">>

TIMED_OUT ==
    <<"C","o","m","m","a","n","d"," ","t","i","m","e","d"," ","o","u","t"," ","a","f","t","e",
      "r"," ">>

STATUS_OK ==
    <<"O","K">>

STATUS_FAILED ==
    <<"F","A","I","L","E","D"," ","(","e","x","i","t"," ","c","o","d","e"," ">>

OK_COMMITTED ==
    <<"O","K",":"," ","C","o","m","m","i","t","t","e","d",":"," ">>

GIT_COMMIT_OUTPUT ==
    <<"G","i","t"," ","c","o","m","m","i","t"," ","o","u","t","p","u","t",":"," ">>

TRUNCATED ==
    <<"\n","\n",".",".","."," ","(","t","r","u","n","c","a","t","e","d",")"," ",".",".",".",
      "\n","\n">>

\* The system prompt (its first sentence: the text is never inspected).
SYSTEM_PROMPT ==
    <<"Y","o","u"," ","a","r","e"," ","O","p","e","n","C","l","a","w",","," ","a","n"," ","a",
      "u","t","o","n","o","m","o","u","s"," ","c","o","d","i","n","g"," ","a","g","e","n","t",
      ".">>

\* The names of the _tool_* methods of ToolExecutor.

N_read_file ==
    <<"r","e","a","d","_","f","i","l","e">>

N_write_file ==
    <<"w","r","i","t","e","_","f","i","l","e">>

N_edit_file ==
    <<"e","d","i","t","_","f","i","l","e">>

N_list_dir ==
    <<"l","i","s","t","_","d","i","r">>

N_search_code ==
    <<"s","e","a","r","c","h","_","c","o","d","e">>

N_run_command ==
    <<"r","u","n","_","c","o","m","m","a","n","d">>

N_git_commit ==
    <<"g","i","t","_","c","o","m","m","i","t">>

N_task_done ==
    <<"t","a","s","k","_","d","o","n","e">>
\* Exception type names, as type(e).__name__ prints them.
IndexError ==
    <<"I","n","d","e","x","E","r","r","o","r">>

ValueError == <<"V","a","l","u","e","E","r","r","o","r">>

TypeError == <<"T","y","p","e","E","r","r","o","r">>

IsADirectoryError ==
    <<"I","s","A","D","i","r","e","c","t","o","r","y","E","r","r","o","r">>

NotADirectoryError ==
    <<"N","o","t","A","D","i","r","e","c","t","o","r","y","E","r","r","o","r">>

FileExistsError ==
    <<"F","i","l","e","E","x","i","s","t","s","E","r","r","o","r">>

TimeoutExpired == <<"T","i","m","e","o","u","t","E","x","p","i","r","e","d">>

\* str(e) of an exception raised by the Python runtime or the standard
\* library (not by this repository): an opaque text.
RuntimeMessage == <<"<","e",">">>

(***************************************************************************)
(* Python values and string operations.                                    *)
(***************************************************************************)
\* Python's None (never equal to a string: its one element is not a character).
NoneVal == <<"None">>

\* bool(s) for s: str | None.
Truthy(s) == s # NoneVal /\ s # <<>>

\* s.startswith(p)
StartsWith(s, p) == Len(p) <= Len(s) /\ SubSeq(s, 1, Len(p)) = p

\* s.endswith(p)
EndsWith(s, p) == Len(p) <= Len(s) /\ SubSeq(s, Len(s) - Len(p) + 1, Len(s)) = p

DecimalDigits == <<"0","1","2","3","4","5","6","7","8","9">>

\* str(n) for a natural number n.
RECURSIVE Digits(_)
Digits(n) ==
    IF n < 10 THEN <<DecimalDigits[n + 1]>>
    ELSE Digits(n \div 10) \o <<DecimalDigits[(n % 10) + 1]>>

\* The format specification {n:4d}: right-aligned in a field of width w.
RECURSIVE PadLeft(_, _)
PadLeft(s, w) == IF Len(s) >= w THEN s ELSE PadLeft(<<" ">> \o s, w)

\* sep.join(parts)
RECURSIVE Join(_, _)
Join(parts, sep) ==
    IF parts = <<>> THEN <<>>
    ELSE IF Len(parts) = 1 THEN parts[1]
    ELSE parts[1] \o sep \o Join(Tail(parts), sep)

\* s.find(p, from): the least index >= from (1-based) at which p occurs in s,
\* 0 when there is none.
RECURSIVE Find(_, _, _)
Find(s, p, from) ==
    IF from + Len(p) - 1 > Len(s) THEN 0
    ELSE IF SubSeq(s, from, from + Len(p) - 1) = p THEN from
    ELSE Find(s, p, from + 1)

\* s.count(p): the number of non-overlapping occurrences, scanned from the
\* left; len(s) + 1 for the empty p.
RECURSIVE CountFrom(_, _, _)
CountFrom(s, p, from) ==
    LET i == Find(s, p, from)
    IN  IF i = 0 THEN 0 ELSE 1 + CountFrom(s, p, i + Len(p))

Count(s, p) == IF p = <<>> THEN Len(s) + 1 ELSE CountFrom(s, p, 1)

\* s.replace(old, new, 1)
ReplaceFirst(s, old, new) ==
    LET i == Find(s, old, 1)
    IN  IF i = 0 THEN s
        ELSE SubSeq(s, 1, i - 1) \o new \o SubSeq(s, i + Len(old), Len(s))

\* s.replace(old, new) for a non-empty old.
RECURSIVE ReplaceAll(_, _, _)
ReplaceAll(s, old, new) ==
    LET i == Find(s, old, 1)
    IN  IF old = <<>> \/ i = 0 THEN s
        ELSE SubSeq(s, 1, i - 1) \o new
             \o ReplaceAll(SubSeq(s, i + Len(old), Len(s)), old, new)

\* s.split(sep) for a one-character sep: the pieces between separators.
RECURSIVE SplitAcc(_, _, _, _)
SplitAcc(s, sep, i, cur) ==
    IF i > Len(s) THEN <<cur>>
    ELSE IF s[i] = sep THEN <<cur>> \o SplitAcc(s, sep, i + 1, <<>>)
    ELSE SplitAcc(s, sep, i + 1, Append(cur, s[i]))

Split(s, sep) == SplitAcc(s, sep, 1, <<>>)

\* Text-mode reading (read_text): universal newlines turn "\r\n" and a lone
\* "\r" into "\n".
RECURSIVE UniversalNewlines(_)
UniversalNewlines(s) ==
    IF s = <<>> THEN <<>>
    ELSE IF s[1] = "\r" /\ Len(s) >= 2 /\ s[2] = "\n"
         THEN <<"\n">> \o UniversalNewlines(SubSeq(s, 3, Len(s)))
    ELSE IF s[1] = "\r" THEN <<"\n">> \o UniversalNewlines(Tail(s))
    ELSE <<s[1]>> \o UniversalNewlines(Tail(s))

\* s.splitlines(): the lines without their terminators ("\n", "\r", "\r\n");
\* a final terminator opens no further line.
SplitLines(s) ==
    LET t == UniversalNewlines(s)
        pieces == Split(t, "\n")
    IN  IF t = <<>> THEN <<>>
        ELSE IF Len(pieces) > 1 /\ pieces[Len(pieces)] = <<>>
             THEN SubSeq(pieces, 1, Len(pieces) - 1)
        ELSE pieces

\* s.strip() for the whitespace of the model's alphabet.
Whitespace == {" ", "\n", "\r", "\t"}

RECURSIVE LStrip(_)
LStrip(s) == IF s # <<>> /\ s[1] \in Whitespace THEN LStrip(Tail(s)) ELSE s

RECURSIVE RStrip(_)
RStrip(s) ==
    IF s # <<>> /\ s[Len(s)] \in Whitespace THEN RStrip(SubSeq(s, 1, Len(s) - 1))
    ELSE s

Strip(s) == RStrip(LStrip(s))

\* seq[start:end] for 0 <= start, 0 <= end.
PySlice(seq, start, end) ==
    SubSeq(seq, start + 1, IF end < Len(seq) THEN end ELSE Len(seq))

\* A strict order on characters (code point order on the model's alphabet).
CharOrder ==
    <<"\n", " ", ".", "/", ":", "A", "B", "D", "E", "K", "N", "O", "S", "T", "_",
      "a", "b", "c", "d", "e", "f", "g", "h", "i", "j", "k", "l", "m", "n", "o", "p",
      "q", "r", "s", "t", "u", "v", "w", "x", "y", "z">>

CharRank(c) ==
    IF \E i \in 1..Len(CharOrder) : CharOrder[i] = c
    THEN CHOOSE i \in 1..Len(CharOrder) : CharOrder[i] = c
    ELSE 0

\* a < b for strings, as Python compares them.
RECURSIVE StrLess(_, _)
StrLess(a, b) ==
    IF b = <<>> THEN FALSE
    ELSE IF a = <<>> THEN TRUE
    ELSE IF a[1] = b[1] THEN StrLess(Tail(a), Tail(b))
    ELSE CharRank(a[1]) < CharRank(b[1])

\* c.lower() on the model's alphabet.
LowerChar(c) ==
    CASE c = "A" -> "a" [] c = "B" -> "b" [] c = "D" -> "d" [] c = "E" -> "e"
      [] c = "K" -> "k" [] c = "N" -> "n" [] c = "O" -> "o" [] c = "S" -> "s"
      [] c = "T" -> "t" [] OTHER -> c

\* s.lower()
Lower(s) == [i \in 1..Len(s) |-> LowerChar(s[i])]

(***************************************************************************)
(* The filesystem and the path sandbox (ToolExecutor.__init__, _resolve).  *)
(*                                                                         *)
(* A canonical absolute path is the sequence of its components; the        *)
(* filesystem maps each existing path to its node.  There are no symbolic  *)
(* links, so Path.resolve() is the lexical normalisation.                  *)
(***************************************************************************)
\* self.root: the resolved project root, /p.
ProjectRoot == << <<"p">> >>

\* str(path) of a canonical absolute path.
PathStr(p) ==
    IF p = <<>> THEN <<"/">>
    ELSE Join([i \in 1..Len(p) |-> <<"/">> \o p[i]], <<>>)

\* Path.resolve() of base / parts: "." and empty parts vanish, ".." steps to
\* the parent (the parent of / is /).
RECURSIVE Normalize(_, _)
Normalize(base, parts) ==
    IF parts = <<>> THEN base
    ELSE LET h == parts[1]
             next == IF h = <<>> \/ h = <<".">> THEN base
                     ELSE IF h = <<".", ".">>
                          THEN (IF base = <<>> THEN base
                                ELSE SubSeq(base, 1, Len(base) - 1))
                     ELSE Append(base, h)
         IN  Normalize(next, Tail(parts))

\* (self.root / path).resolve(): an absolute path replaces the root.
Resolved(path) ==
    Normalize(IF path # <<>> /\ path[1] = "/" THEN <<>> ELSE ProjectRoot,
              Split(path, "/"))

\* The safety check of _resolve: the string form of the resolved path starts
\* with the string form of the root.
InsideRoot(resolved) == StartsWith(PathStr(resolved), PathStr(ProjectRoot))

\* The resolved path is the root or a descendant of it (component-wise), as
\* Path.relative_to decides it.
IsRelativeToRoot(p) ==
    Len(p) >= Len(ProjectRoot) /\ SubSeq(p, 1, Len(ProjectRoot)) = ProjectRoot

\* str(p.relative_to(self.root))
RelStr(p) ==
    IF p = ProjectRoot THEN <<".">>
    ELSE Join(SubSeq(p, Len(ProjectRoot) + 1, Len(p)), <<"/">>)

File(content) == [kind |-> "file", content |-> content]

Dir == [kind |-> "dir", content |-> <<>>]

Exists(fs, p) == p \in DOMAIN fs

IsFile(fs, p) == Exists(fs, p) /\ fs[p].kind = "file"

IsDir(fs, p) == Exists(fs, p) /\ fs[p].kind = "dir"

\* dp.iterdir(): the immediate children of a directory.
Children(fs, p) ==
    {q \in DOMAIN fs : Len(q) = Len(p) + 1 /\ SubSeq(q, 1, Len(p)) = p}

\* The proper ancestors of a path, the filesystem root included.
Ancestors(p) == {SubSeq(p, 1, n) : n \in 0..(Len(p) - 1)}

(***************************************************************************)
(* What a handler does: it returns a text, or raises an exception that     *)
(* execute() turns into a text.  "failure" names the failing case the      *)
(* branch stands for ("none" on success); it is not a value of the         *)
(* program.                                                                *)
(***************************************************************************)
Returns(text, fs, failure) ==
    [raised |-> FALSE, exc |-> NoneVal, text |-> text, fs |-> fs, failure |-> failure]

Raises(exc, msg, fs, failure) ==
    [raised |-> TRUE, exc |-> exc, text |-> msg, fs |-> fs, failure |-> failure]

\* raise ValueError(f"Path escapes project root: {path}")
PathEscape(path, fs) == Raises(ValueError, PATH_ESCAPES \o path, fs, "PathEscape")

\* kwargs.get(key, default) for the handler's optional parameters.
Arg(kv, key, default) == IF key \in DOMAIN kv THEN kv[key] ELSE default

\* _tool_read_file(path, start_line=None, end_line=None)
Tool_read_file(kv, fs) ==
    LET path == kv["path"]
        fp == Resolved(path)
    IN  IF ~InsideRoot(fp) THEN PathEscape(path, fs)
        ELSE IF ~Exists(fs, fp)
             THEN Returns(ERROR_PREFIX \o FILE_NOT_FOUND \o path, fs, "NotFound")
        ELSE IF ~IsFile(fs, fp)
             THEN Returns(ERROR_PREFIX \o NOT_A_FILE \o path, fs, "WrongEntryType")
        ELSE LET lines == SplitLines(fs[fp].content)
                 \* None and 0 are both falsy in (start_line or 1) and
                 \* (end_line or len(lines)): an absent bound is written 0.
                 start_line == Arg(kv, "start_line", 0)
                 end_line == Arg(kv, "end_line", 0)
                 start == (IF start_line = 0 THEN 1 ELSE start_line) - 1
                 end == IF end_line = 0 THEN Len(lines) ELSE end_line
                 selected == PySlice(lines, start, end)
                 numbered == [i \in 1..Len(selected) |->
                                 PadLeft(Digits(i + start), 4) \o <<" ", "|", " ">>
                                 \o selected[i]]
             IN  Returns(FILE_HDR \o path \o <<" ", "(">> \o Digits(Len(lines))
                         \o LINES_TOTAL \o Join(numbered, <<"\n">>), fs, "none")

\* content.count("\n") + (1 if content and not content.endswith("\n") else 0)
WrittenLines(content) ==
    Count(content, <<"\n">>)
    + (IF content # <<>> /\ ~EndsWith(content, <<"\n">>) THEN 1 ELSE 0)

\* fp.parent.mkdir(parents=True, exist_ok=True)
MkdirParents(fs, fp) ==
    [q \in DOMAIN fs \cup (Ancestors(fp) \ DOMAIN fs) |->
        IF q \in DOMAIN fs THEN fs[q] ELSE Dir]

\* fp.write_text(content): the file is created or overwritten.
WriteText(fs, fp, content) ==
    [q \in DOMAIN fs \cup {fp} |-> IF q = fp THEN File(content) ELSE fs[q]]

\* _tool_write_file(path, content)
Tool_write_file(kv, fs) ==
    LET path == kv["path"]
        content == kv["content"]
        fp == Resolved(path)
    IN  IF ~InsideRoot(fp) THEN PathEscape(path, fs)
        ELSE IF IsFile(fs, SubSeq(fp, 1, Len(fp) - 1))
             THEN Raises(FileExistsError, RuntimeMessage, fs, "WrongEntryType")
        ELSE IF \E a \in Ancestors(fp) : IsFile(fs, a)
             THEN Raises(NotADirectoryError, RuntimeMessage, fs, "WrongEntryType")
        ELSE IF IsDir(fs, fp)
             THEN Raises(IsADirectoryError, RuntimeMessage, MkdirParents(fs, fp),
                         "WrongEntryType")
        ELSE Returns(OK_WROTE \o Digits(WrittenLines(content)) \o LINES_TO \o path,
                     WriteText(MkdirParents(fs, fp), fp, content), "none")

\* _tool_edit_file(path, old_string, new_string)
Tool_edit_file(kv, fs) ==
    LET path == kv["path"]
        old_string == kv["old_string"]
        new_string == kv["new_string"]
        fp == Resolved(path)
    IN  IF ~InsideRoot(fp) THEN PathEscape(path, fs)
        ELSE IF ~Exists(fs, fp)
             THEN Returns(ERROR_PREFIX \o FILE_NOT_FOUND \o path, fs, "NotFound")
        ELSE IF IsDir(fs, fp)
             THEN Raises(IsADirectoryError, RuntimeMessage, fs, "WrongEntryType")
        ELSE LET text == UniversalNewlines(fs[fp].content)
                 count == Count(text, old_string)
             IN  IF count = 0
                 THEN Returns(ERROR_PREFIX \o OLD_NOT_FOUND \o path, fs,
                              "EditTargetMissing")
                 ELSE IF count > 1
                 THEN Returns(ERROR_PREFIX \o OLD_FOUND \o Digits(count) \o TIMES_IN
                              \o path \o MUST_BE_UNIQUE, fs, "AmbiguousEdit")
                 ELSE Returns(OK_REPLACED \o path,
                              WriteText(fs, fp, ReplaceFirst(text, old_string, new_string)),
                              "none")

\* The names list_dir tests an entry against.
ArtifactNames ==
    { <<".","g","i","t">>, <<"_","_","p","y","c","a","c","h","e","_","_">>,
      <<".","v","e","n","v">>, <<"v","e","n","v">> }

\* entry.name.startswith(".") and entry.name in (".git", "__pycache__", ".venv", "venv")
HiddenInListing(name) == StartsWith(name, <<".">>) /\ name \in ArtifactNames

\* The sort key of list_dir: (not p.is_dir(), p.name.lower()).
EntryLess(fs, a, b) ==
    LET ka == IF IsDir(fs, a) THEN 0 ELSE 1
        kb == IF IsDir(fs, b) THEN 0 ELSE 1
    IN  ka < kb \/ (ka = kb /\ StrLess(Lower(a[Len(a)]), Lower(b[Len(b)])))

\* sorted(dp.iterdir(), key=...)
RECURSIVE SortedEntries(_, _)
SortedEntries(fs, S) ==
    IF S = {} THEN <<>>
    ELSE LET m == CHOOSE e \in S : \A o \in S \ {e} : ~EntryLess(fs, o, e)
         IN  <<m>> \o SortedEntries(fs, S \ {m})

\* One line of the listing: f"  {rel}{suffix}".
ListingLine(fs, entry) ==
    <<" ", " ">> \o RelStr(entry)
    \o (IF IsDir(fs, entry) THEN <<"/">>
        ELSE <<" ", " ", "(">> \o Digits(Len(fs[entry].content)) \o BYTES_SUFFIX)

\* seq filtered by a predicate given as the set of elements to keep.
RECURSIVE SelectIn(_, _)
SelectIn(seq, keep) ==
    IF seq = <<>> THEN <<>>
    ELSE (IF seq[1] \in keep THEN <<seq[1]>> ELSE <<>>) \o SelectIn(Tail(seq), keep)

\* _tool_list_dir(path=".")
Tool_list_dir(kv, fs) ==
    LET path == Arg(kv, "path", <<".">>)
        dp == Resolved(path)
    IN  IF ~InsideRoot(dp) THEN PathEscape(path, fs)
        ELSE IF ~Exists(fs, dp)
             THEN Returns(ERROR_PREFIX \o DIR_NOT_FOUND \o path, fs, "NotFound")
        ELSE IF ~IsDir(fs, dp)
             THEN Returns(ERROR_PREFIX \o NOT_A_DIRECTORY \o path, fs, "WrongEntryType")
        ELSE LET entries == SortedEntries(fs, Children(fs, dp))
                 shown == SelectIn(entries,
                              {e \in Children(fs, dp) : ~HiddenInListing(e[Len(e)])})
                 result == [i \in 1..Len(shown) |-> ListingLine(fs, shown[i])]
             IN  \* entry.relative_to(self.root) raises for an entry outside the root
                 IF entries # <<>> /\ ~IsRelativeToRoot(dp)
                 THEN Raises(ValueError, RuntimeMessage, fs, "PathEscape")
                 ELSE IF result # <<>>
                 THEN Returns(DIRECTORY_HDR \o path \o <<"\n">> \o Join(result, <<"\n">>),
                              fs, "none")
                 ELSE Returns(DIRECTORY_HDR \o path \o EMPTY_SUFFIX, fs, "none")

(***************************************************************************)
(* Subprocesses.  What a child process does is the environment's choice:   *)
(* it exits with a code and its output, runs into the timeout, or cannot   *)
(* be started because the program is missing.                              *)
(***************************************************************************)
Exited(code, out, err) == [kind |-> "exit", code |-> code, out |-> out, err |-> err]

TimedOut == [kind |-> "timeout", code |-> 0, out |-> <<>>, err |-> <<>>]

ProgramMissing == [kind |-> "missing", code |-> 0, out |-> <<>>, err |-> <<>>]

\* The files below a path, the path itself when it is a file.
FilesUnder(fs, dp) ==
    {q \in DOMAIN fs : fs[q].kind = "file" /\ Len(q) >= Len(dp)
                        /\ SubSeq(q, 1, Len(dp)) = dp}

\* A set of paths as a sequence, in the order of their string forms.
RECURSIVE SortedPaths(_)
SortedPaths(S) ==
    IF S = {} THEN <<>>
    ELSE LET m == CHOOSE e \in S : \A o \in S \ {e} : ~StrLess(PathStr(o), PathStr(e))
         IN  <<m>> \o SortedPaths(S \ {m})

\* pattern occurs in line (the patterns of the model are literal texts).
Matches(pattern, line) == Find(line, pattern, 1) # 0

\* The concatenation of a sequence of sequences.
RECURSIVE Flatten(_)
Flatten(seqs) == IF seqs = <<>> THEN <<>> ELSE seqs[1] \o Flatten(Tail(seqs))

\* compiled.search(line): with re.IGNORECASE (fold) case is ignored.
LineMatches(pattern, line, fold) ==
    IF fold THEN Matches(Lower(pattern), Lower(line)) ELSE Matches(pattern, line)

\* The indexes of the matching lines, ascending.
MatchingIndexes(lines, pattern, fold) ==
    SelectIn([i \in 1..Len(lines) |-> i],
             {i \in 1..Len(lines) : LineMatches(pattern, lines[i], fold)})

\* f"{prefix}{i}:{line}" for each matching line.
MatchLines(prefix, lines, idx) ==
    [k \in 1..Len(idx) |-> prefix \o Digits(idx[k]) \o <<":">> \o lines[idx[k]]]

NumberedIn(prefix, lines, pattern, fold) ==
    MatchLines(prefix, lines, MatchingIndexes(lines, pattern, fold))

\* The matching lines of a file as grep and the fallback walk report them.
NumberedMatches(prefix, content, pattern, fold) ==
    NumberedIn(prefix, SplitLines(content), pattern, fold)

\* --include / fnmatch for the model's include patterns: file names without
\* wildcards, NoneVal for no filter.
Included(include, name) == include = NoneVal \/ include = name

\* Each line ended by "\n", joined.
Terminated(lines) == Flatten([k \in 1..Len(lines) |-> lines[k] \o <<"\n">>])

\* The lines grep prints for the files it searches.
GrepLines(fs, pattern, files, named) ==
    Flatten([i \in 1..Len(files) |->
        Terminated(NumberedMatches(IF named THEN PathStr(files[i]) \o <<":">> ELSE <<>>,
                                   fs[files[i]].content, pattern, FALSE))])

\* The standard output of grep -rn [--include G] pattern dp: every file below
\* dp is searched, whatever directory holds it; a single file operand is
\* reported without its name.
GrepStdout(fs, pattern, dp, include) ==
    GrepLines(fs, pattern,
              SortedPaths({q \in FilesUnder(fs, dp) : Included(include, q[Len(q)])}),
              ~IsFile(fs, dp))

\* skip_dirs of _python_search
SkipDirs ==
    ArtifactNames \cup
    { <<"n","o","d","e","_","m","o","d","u","l","e","s">>,
      <<".","m","y","p","y","_","c","a","c","h","e">> }

\* The cap on reported matches.
MAX_RESULTS == 50

\* The files os.walk(search_path) reaches with the skipped directories pruned.
WalkedFiles(fs, search_path) ==
    {q \in FilesUnder(fs, search_path) :
        /\ IsDir(fs, search_path)
        /\ \A n \in (Len(search_path) + 1)..(Len(q) - 1) : q[n] \notin SkipDirs}

\* The results list of _python_search over the walked files, in order.
SearchResults(fs, pattern, files) ==
    Flatten([i \in 1..Len(files) |->
        NumberedMatches(RelStr(files[i]) \o <<":">>, fs[files[i]].content, pattern, TRUE)])

\* fpath.relative_to(self.root) raises for a matching file outside the root.
SearchRaises(fs, pattern, files) ==
    \E i \in 1..Len(files) :
        /\ ~IsRelativeToRoot(files[i])
        /\ NumberedMatches(<<>>, fs[files[i]].content, pattern, TRUE) # <<>>

\* The files _python_search reads, in the order of the walk.
SearchedFiles(fs, search_path, include) ==
    SortedPaths({q \in WalkedFiles(fs, search_path) : Included(include, q[Len(q)])})

\* _python_search(pattern, search_path, include): the results joined, at most
\* MAX_RESULTS of them.
PythonSearch(fs, pattern, search_path, include) ==
    Join(PySlice(SearchResults(fs, pattern, SearchedFiles(fs, search_path, include)),
                 0, MAX_RESULTS), <<"\n">>)

\* Make paths relative: line.replace(str(self.root) + os.sep, "").
CleanedLines(lines) ==
    [i \in 1..Len(lines) |-> ReplaceAll(lines[i], PathStr(ProjectRoot) \o <<"/">>, <<>>)]

\* The result of search_code for the output of the search.
SearchResult(output, pattern, fs) ==
    IF Strip(output) = <<>>
    THEN Returns(NO_MATCHES \o pattern \o <<"'">>, fs, "none")
    ELSE Returns(Join(CleanedLines(PySlice(SplitLines(Strip(output)), 0, MAX_RESULTS)),
                      <<"\n">>), fs, "none")

\* search_code once the path is resolved.
SearchIn(pattern, path, include, dp, fs, proc) ==
    IF ~InsideRoot(dp) THEN PathEscape(path, fs)
    ELSE IF proc.kind = "timeout"
         THEN Raises(TimeoutExpired, RuntimeMessage, fs, "CommandTimeout")
    ELSE IF proc.kind = "missing"
         THEN (IF SearchRaises(fs, pattern, SearchedFiles(fs, dp, include))
               THEN Raises(ValueError, RuntimeMessage, fs, "PathEscape")
               ELSE SearchResult(PythonSearch(fs, pattern, dp, include), pattern, fs))
    ELSE SearchResult(GrepStdout(fs, pattern, dp, include), pattern, fs)

\* _tool_search_code(pattern, path=".", include=None)
Tool_search_code(kv, fs, proc) ==
    SearchIn(kv["pattern"], Arg(kv, "path", <<".">>), Arg(kv, "include", NoneVal),
             Resolved(Arg(kv, "path", <<".">>)), fs, proc)

\* The output window of _tool_run_command.
MAX_OUTPUT == 8000

HEAD_CHARS == 4000

TAIL_CHARS == 2000

\* The default timeout of run_command, in seconds.
DEFAULT_TIMEOUT == 60

\* run_command without the handler of the timeout: the exception of the
\* child process leaves the method.
Tool_run_command_TimeoutRaises(kv, fs, proc) ==
    LET joined == proc.out
                  \o (IF proc.err # <<>>
                      THEN (IF proc.out # <<>> THEN <<"\n">> ELSE <<>>) \o proc.err
                      ELSE <<>>)
        output == IF Len(joined) > MAX_OUTPUT
                  THEN SubSeq(joined, 1, HEAD_CHARS) \o TRUNCATED
                       \o SubSeq(joined, Len(joined) - TAIL_CHARS + 1, Len(joined))
                  ELSE joined
        status == IF proc.code = 0 THEN STATUS_OK
                  ELSE STATUS_FAILED \o Digits(proc.code) \o <<")">>
    IN  IF proc.kind = "timeout"
        THEN Raises(TimeoutExpired, RuntimeMessage, fs, "CommandTimeout")
        ELSE IF output # <<>>
        THEN Returns(<<"[">> \o status \o <<"]", "\n">> \o output, fs, "none")
        ELSE Returns(<<"[">> \o status \o <<"]">>, fs, "none")

\* _tool_run_command(command, timeout=60)
Tool_run_command(kv, fs, proc) ==
    LET timeout == Arg(kv, "timeout", DEFAULT_TIMEOUT)
        joined == proc.out
                  \o (IF proc.err # <<>>
                      THEN (IF proc.out # <<>> THEN <<"\n">> ELSE <<>>) \o proc.err
                      ELSE <<>>)
        output == IF Len(joined) > MAX_OUTPUT
                  THEN SubSeq(joined, 1, HEAD_CHARS) \o TRUNCATED
                       \o SubSeq(joined, Len(joined) - TAIL_CHARS + 1, Len(joined))
                  ELSE joined
        status == IF proc.code = 0 THEN STATUS_OK
                  ELSE STATUS_FAILED \o Digits(proc.code) \o <<")">>
    IN  IF proc.kind = "timeout"
        THEN Returns(ERROR_PREFIX \o TIMED_OUT \o Digits(timeout) \o <<"s">>, fs,
                     "CommandTimeout")
        ELSE IF output # <<>>
        THEN Returns(<<"[">> \o status \o <<"]", "\n">> \o output, fs, "none")
        ELSE Returns(<<"[">> \o status \o <<"]">>, fs, "none")

\* _tool_git_commit(message)
Tool_git_commit(kv, fs, proc) ==
    LET message == kv["message"]
    IN  IF proc.kind # "exit"
        THEN Returns(ERROR_PREFIX \o RuntimeMessage, fs, "CommitFailed")
        ELSE IF proc.code = 0
        THEN Returns(OK_COMMITTED \o message, fs, "none")
        ELSE Returns(GIT_COMMIT_OUTPUT \o proc.out \o <<"\n">> \o proc.err, fs,
                     "CommitFailed")

\* _tool_task_done(summary)
Tool_task_done(kv, fs) == Returns(TASK_DONE_PREFIX \o kv["summary"], fs, "none")

(***************************************************************************)
(* ToolExecutor.execute: dispatch by name, argument binding, and the       *)
(* except clause that turns every exception into a text.                   *)
(***************************************************************************)
ToolNames ==
    {N_read_file, N_write_file, N_edit_file, N_list_dir, N_search_code,
     N_run_command, N_git_commit, N_task_done}

\* The parameters of each handler without a default value.
RequiredParams(name) ==
    CASE name = N_read_file -> {"path"}
      [] name = N_write_file -> {"path", "content"}
      [] name = N_edit_file -> {"path", "old_string", "new_string"}
      [] name = N_list_dir -> {}
      [] name = N_search_code -> {"pattern"}
      [] name = N_run_command -> {"command"}
      [] name = N_git_commit -> {"message"}
      [] name = N_task_done -> {"summary"}

\* The parameters of each handler with a default value.
OptionalParams(name) ==
    CASE name = N_read_file -> {"start_line", "end_line"}
      [] name = N_list_dir -> {"path"}
      [] name = N_search_code -> {"path", "include"}
      [] name = N_run_command -> {"timeout"}
      [] OTHER -> {}

\* The keyword call of the handler binds: args is a mapping, every required
\* parameter is given and no unknown keyword is.
Binds(name, args) ==
    /\ args.mapping
    /\ RequiredParams(name) \subseteq DOMAIN args.kv
    /\ DOMAIN args.kv \subseteq RequiredParams(name) \cup OptionalParams(name)

\* getattr(self, f"_tool_{name}") called with the bound arguments.
Handler(name, kv, fs, proc) ==
    CASE name = N_read_file -> Tool_read_file(kv, fs)
      [] name = N_write_file -> Tool_write_file(kv, fs)
      [] name = N_edit_file -> Tool_edit_file(kv, fs)
      [] name = N_list_dir -> Tool_list_dir(kv, fs)
      [] name = N_search_code -> Tool_search_code(kv, fs, proc)
      [] name = N_run_command -> Tool_run_command(kv, fs, proc)
      [] name = N_git_commit -> Tool_git_commit(kv, fs, proc)
      [] name = N_task_done -> Tool_task_done(kv, fs)

\* execute without its except clause.
Caught_Propagates(outcome) == outcome

\* except Exception as e: return f"Error: {type(e).__name__}: {e}"
Caught(outcome) ==
    IF outcome.raised
    THEN Returns(ERROR_PREFIX \o outcome.exc \o <<":", " ">> \o outcome.text,
                 outcome.fs, outcome.failure)
    ELSE outcome

\* execute without the test of the handler: the missing handler is called.
Execute_HandlerNotTested(name, args, fs, proc) ==
    IF name \notin ToolNames
    THEN Caught(Raises(TypeError, RuntimeMessage, fs, "UnknownTool"))
    ELSE IF ~Binds(name, args)
    THEN Caught(Raises(TypeError, RuntimeMessage, fs, "BadArguments"))
    ELSE Caught(Handler(name, args.kv, fs, proc))

\* execute(name, args)
Execute(name, args, fs, proc) ==
    IF name \notin ToolNames
    THEN Returns(ERROR_PREFIX \o UNKNOWN_TOOL \o name \o <<"'">>, fs, "UnknownTool")
    ELSE IF ~Binds(name, args)
    THEN Caught(Raises(TypeError, RuntimeMessage, fs, "BadArguments"))
    ELSE Caught(Handler(name, args.kv, fs, proc))

\* The filesystem at the start: the project /p with a file, a directory,
\* version-control metadata and a virtual environment, and beside it a
\* directory /pq whose name begins with the root's name.
InitialFs ==
    (<<>> :> Dir)
    @@ (ProjectRoot :> Dir)
    @@ (<< <<"p">>, <<"f">> >> :> File(<<"a", "\n", "b">>))
    @@ (<< <<"p">>, <<"d">> >> :> Dir)
    @@ (<< <<"p">>, <<".", "g", "i", "t">> >> :> Dir)
    @@ (<< <<"p">>, <<".", "g", "i", "t">>, <<"c", "o", "n", "f", "i", "g">> >>
           :> File(<<"b", "a", "r", "e", "\n">>))
    @@ (<< <<"p">>, <<"v", "e", "n", "v">> >> :> Dir)
    @@ (<< <<"p", "q">> >> :> Dir)
    @@ (<< <<"p", "q">>, <<"s">> >> :> File(<<"k">>))

\* A call of execute and its outcome, kept for inspection.
ExecRecord(name, args, proc, out) ==
    [name |-> name, args |-> args, proc |-> proc, raised |-> out.raised,
     text |-> out.text, failure |-> out.failure]

\* No call of execute yet.
NoExec ==
    [name |-> NoneVal, args |-> [mapping |-> TRUE, kv |-> <<>>],
     proc |-> Exited(0, <<>>, <<>>), raised |-> FALSE, text |-> NoneVal,
     failure |-> "none"]

(***************************************************************************)
(* The conversation driver (run_agent).                                    *)
(***************************************************************************)
VARIABLES
    pc,             \* where run_agent is: "AwaitingModel" (the while test),
                    \* "ExecutingTools" (the for loop), or an end: "Done",
                    \* "Exhausted", "Failed" (returned), "Raised" (an exception
                    \* left run_agent)
    iteration,      \* iteration
    messages,       \* messages: the history
    response,       \* what the last provider call gave
    pending,        \* the tool calls of the turn the for loop has not reached
    task_summary,   \* task_summary
    run_result,     \* the value run_agent returned, or the exception it raised
    auto_commit,    \* config.project.auto_commit
    on_message,     \* whether run_agent was given the callback on_message
    free_calls,     \* tool calls the provider may still choose freely
    provider_calls, \* calls of client.chat.completions.create so far
    tool_runs,      \* executor.execute calls made by the for loop so far
    commits,        \* the auxiliary git_commit calls: message and result
    fs,             \* the filesystem
    last_exec,      \* the last call of ToolExecutor.execute and its outcome
    events,         \* the calls of on_message so far, in order
    editors,        \* two edit_file calls of concurrent runs on one root
    bot             \* the Telegram front end: what its handlers have done

vars ==
    <<pc, iteration, messages, response, pending, task_summary, run_result,
      auto_commit, on_message, editors, bot, free_calls, provider_calls, tool_runs,
      commits, fs, last_exec, events>>

\* No concurrent edit_file calls are under way.
NoEditors == <<>>

\* No Telegram front end is running.
NoBot == <<>>

\* One call on_message(role, content).  execution names the call of
\* executor.execute the event reports: the id of the tool call the for loop
\* is at, N_git_commit for the auxiliary commit, None for assistant text.
Event(role, content, execution) ==
    [role |-> role, content |-> content, execution |-> execution]

\* emit(role, content) that returned: the callback, when there is one, has
\* been called with the event; the console branches call nothing.
Delivered(callback, log, role, content, execution) ==
    IF callback THEN Append(log, Event(role, content, execution)) ELSE log

\* if msg.content: emit("assistant", msg.content)
AfterAssistantText(callback, log, content) ==
    IF content # NoneVal /\ content # <<>>
    THEN Delivered(callback, log, "assistant", content, NoneVal)
    ELSE log

\* max_iterations
max_iterations == 30

\* The length task_summary is cut to in the commit message.
COMMIT_SUBJECT_CHARS == 72

\* The number of tool calls the provider chooses freely (their tools,
\* arguments and grouping into turns); after them it requests one scripted
\* call per turn.
FreeCalls == 2

\* The user's request.
Task == <<"f", "i", "x">>

Message(role, content, tool_calls, tool_call_id) ==
    [role |-> role, content |-> content, tool_calls |-> tool_calls,
     tool_call_id |-> tool_call_id]

\* The history run_agent starts from.
InitialMessages ==
    << Message("system", SYSTEM_PROMPT, <<>>, NoneVal),
       Message("user", Task, <<>>, NoneVal) >>

Returned(text) == [kind |-> "return", value |-> text]

RaisedOut(exc) == [kind |-> "raise", value |-> exc]

(***************************************************************************)
(* The provider and the tools' environment.  A requested call carries the  *)
(* tool name and the argument text as the provider sent it: "object" is    *)
(* the JSON text of a mapping (kv), "garbage" a string that is no JSON,    *)
(* "nonstring" a value that is no string at all.  proc is what the child   *)
(* process of the call, if it starts one, will do.                         *)
(***************************************************************************)
Request(name, wire, kv, proc) ==
    [name |-> name, arguments |-> [wire |-> wire, kv |-> kv], proc |-> proc]

NoProcess == Exited(0, <<>>, <<>>)

RunOk == Request(N_run_command, "object", [command |-> <<"l", "s">>], NoProcess)

RunTimeout == Request(N_run_command, "object", [command |-> <<"l", "s">>], TimedOut)

UnknownTool == Request(<<"z", "i", "p">>, "object", <<>>, NoProcess)

DoneOk == Request(N_task_done, "object", [summary |-> <<"o", "k">>], NoProcess)

\* A summary that holds a console-markup closing tag.
DoneB ==
    Request(N_task_done, "object", [summary |-> <<"[", "/", "b", "]">>], NoProcess)

\* A summary that itself begins with the sentinel prefix.
DoneNested ==
    Request(N_task_done, "object", [summary |-> TASK_DONE_PREFIX \o <<"x">>],
            NoProcess)

DoneEmpty == Request(N_task_done, "object", [summary |-> <<>>], NoProcess)

GarbageArgs == Request(N_task_done, "garbage", <<>>, NoProcess)

NonStringArgs == Request(N_task_done, "nonstring", <<>>, NoProcess)

\* The calls the provider chooses from while it is free.
CallKinds ==
    {RunOk, RunTimeout, UnknownTool, DoneOk, DoneB, DoneNested, DoneEmpty,
     GarbageArgs, NonStringArgs}

\* The turns the provider chooses from once its free calls are used up.
ScriptedTurns == {<<RunOk>>, <<DoneOk>>, <<NonStringArgs>>}

\* The tool-calling turns open to the provider.
ToolTurns(free) ==
    ScriptedTurns \cup UNION {[1..n -> CallKinds] : n \in 1..free}

\* str(e) of the exception a failing provider call raises.
ProviderErrors == {<<"b", "o", "o", "m">>}

\* The text of an assistant turn.
Contents == {NoneVal, <<>>, <<"h", "i">>}

\* What the git processes of the auxiliary commit do.
CommitProcs == {Exited(0, <<>>, <<>>), Exited(1, <<"n", "o">>, <<>>), ProgramMissing}

Response(kind, error, content, tool_calls) ==
    [kind |-> kind, error |-> error, content |-> content, tool_calls |-> tool_calls]

\* The id the provider gives the k-th call of the turn of an iteration.
CallId(i, k) == <<"c">> \o Digits(i) \o <<"_">> \o Digits(k)

\* The turn as the provider returns it: each call with its id.
WithIds(turn, i) ==
    [k \in 1..Len(turn) |->
        [id |-> CallId(i, k), name |-> turn[k].name, arguments |-> turn[k].arguments,
         proc |-> turn[k].proc]]

\* msg.model_dump(exclude_none=True): the assistant message of the history.
AssistantMessage(content, calls) ==
    Message("assistant", content,
            [k \in 1..Len(calls) |->
                [id |-> calls[k].id, name |-> calls[k].name,
                 arguments |-> calls[k].arguments]],
            NoneVal)

\* run_agent(task, config, on_message) at its first while test; callback
\* tells whether on_message is given.
Started(callback) ==
    /\ pc = "AwaitingModel"
    /\ iteration = 0
    /\ messages = InitialMessages
    /\ response = Response("none", NoneVal, NoneVal, <<>>)
    /\ pending = <<>>
    /\ task_summary = NoneVal
    /\ run_result = [kind |-> "running", value |-> NoneVal]
    /\ auto_commit \in BOOLEAN
    /\ on_message = callback
    /\ free_calls = FreeCalls
    /\ provider_calls = 0
    /\ tool_runs = 0
    /\ commits = <<>>
    /\ fs = InitialFs
    /\ last_exec = NoExec
    /\ events = <<>>
    /\ editors = NoEditors
    /\ bot = NoBot

\* run_agent called with a callback, as the Telegram front end calls it.
Init == Started(TRUE)

\* run_agent called without a callback, as the command line calls it.
ConsoleInit == Started(FALSE)

\* The failure result without the error text.
ProviderFailureResult_NoText(e) == LLM_API_ERROR

\* The provider call raises: error_msg = f"LLM API error: {e}"; return error_msg.
ProviderFailureResult(e) == LLM_API_ERROR \o e

\* The placeholder only for an absent text.
FinalText_NoneOnly(content) == IF content = NoneVal THEN NO_RESPONSE ELSE content

\* return msg.content or "(no response)"
FinalText(content) == IF Truthy(content) THEN content ELSE NO_RESPONSE

\* The except clause going round the loop again instead of returning.
ProviderFails_Retry(e) ==
    /\ response' = Response("error", e, NoneVal, <<>>)
    /\ pc' = "AwaitingModel"
    /\ UNCHANGED <<messages, pending, task_summary, free_calls, run_result, events>>

\* client.chat.completions.create raises e: the except clause returns.
ProviderFails(e) ==
    /\ response' = Response("error", e, NoneVal, <<>>)
    /\ run_result' = Returned(ProviderFailureResult(e))
    /\ pc' = "Failed"
    /\ UNCHANGED <<messages, pending, task_summary, free_calls, events>>

\* The response has no choices: response.choices[0] raises IndexError
\* outside the try statement.
NoChoices ==
    /\ response' = Response("nochoices", NoneVal, NoneVal, <<>>)
    /\ run_result' = RaisedOut(IndexError)
    /\ pc' = "Raised"
    /\ UNCHANGED <<messages, pending, task_summary, free_calls, events>>

\* A turn without tool calls: it is appended and its text returned.
TextTurn(content) ==
    /\ response' = Response("message", NoneVal, content, <<>>)
    /\ messages' = Append(messages, AssistantMessage(content, <<>>))
    /\ run_result' = Returned(FinalText(content))
    /\ pc' = "Done"
    /\ events' = AfterAssistantText(on_message, events, content)
    /\ UNCHANGED <<pending, task_summary, free_calls>>

\* A turn whose calls the for loop takes last to first.
ToolTurn_LastCallFirst(content, calls) ==
    /\ response' = Response("message", NoneVal, content, calls)
    /\ messages' = Append(messages, AssistantMessage(content, calls))
    /\ pending' = [k \in 1..Len(calls) |-> calls[Len(calls) + 1 - k]]
    /\ task_summary' = NoneVal
    /\ free_calls' = IF free_calls = 0 THEN 0 ELSE free_calls - Len(calls)
    /\ events' = AfterAssistantText(on_message, events, content)
    /\ pc' = "ExecutingTools"
    /\ UNCHANGED run_result

\* A turn that starts the history over: the earlier turns are dropped.
ToolTurn_HistoryRestarts(content, calls) ==
    /\ response' = Response("message", NoneVal, content, calls)
    /\ messages' = Append(InitialMessages, AssistantMessage(content, calls))
    /\ pending' = calls
    /\ task_summary' = NoneVal
    /\ free_calls' = IF free_calls = 0 THEN 0 ELSE free_calls - Len(calls)
    /\ events' = AfterAssistantText(on_message, events, content)
    /\ pc' = "ExecutingTools"
    /\ UNCHANGED run_result

\* A turn with tool calls: it is appended and the for loop starts.
ToolTurn(content, calls) ==
    /\ response' = Response("message", NoneVal, content, calls)
    /\ messages' = Append(messages, AssistantMessage(content, calls))
    /\ pending' = calls
    /\ task_summary' = NoneVal
    /\ free_calls' = IF free_calls = 0 THEN 0 ELSE free_calls - Len(calls)
    /\ events' = AfterAssistantText(on_message, events, content)
    /\ pc' = "ExecutingTools"
    /\ UNCHANGED run_result

\* One pass of the while loop up to the for loop: the provider call and what
\* run_agent does with its outcome.
CallProvider ==
    /\ pc = "AwaitingModel"
    /\ iteration < max_iterations
    /\ iteration' = iteration + 1
    /\ provider_calls' = provider_calls + 1
    /\ UNCHANGED <<auto_commit, on_message, editors, bot,
                   tool_runs, commits, fs, last_exec>>
    /\ \/ \E e \in ProviderErrors : ProviderFails(e)
       \/ NoChoices
       \/ \E content \in Contents : TextTurn(content)
       \/ \E turn \in ToolTurns(free_calls) :
             ToolTurn(NoneVal, WithIds(turn, iteration + 1))

\* json.loads(tool_call.function.arguments) raises an exception other than
\* JSONDecodeError: the argument text is not a string.
ArgumentsRaise(arguments) == arguments.wire = "nonstring"

\* fn_args: the decoded mapping; except json.JSONDecodeError: fn_args = {}.
FnArgs(arguments) ==
    IF arguments.wire = "object" THEN [mapping |-> TRUE, kv |-> arguments.kv]
    ELSE [mapping |-> TRUE, kv |-> <<>>]

\* if result.startswith("__TASK_DONE__:"): task_summary = result[len("__TASK_DONE__:"):]
SummaryAfter(summary, result) ==
    IF StartsWith(result, TASK_DONE_PREFIX)
    THEN SubSeq(result, Len(TASK_DONE_PREFIX) + 1, Len(result))
    ELSE summary

\* A tool message that does not carry the id of its call.
ToolMessage_WithoutId(tool_call, result) == Message("tool", result, <<>>, NoneVal)

\* The tool-role message appended for a call.
ToolMessage(tool_call, result) == Message("tool", result, <<>>, tool_call.id)

(***************************************************************************)
(* emit(role, content).  With a callback every event goes to the callback. *)
(* Without one the console prints it: an assistant text as Markdown, a     *)
(* tool event as console markup, the event's text standing unescaped       *)
(* between "[dim]" and "[/dim]".  The console's markup renderer raises     *)
(* MarkupError on a closing tag that closes nothing.                       *)
(***************************************************************************)
MarkupError ==
    <<"M", "a", "r", "k", "u", "p", "E", "r", "r", "o", "r">>

\* lines[:10] of the tool_result preview.
PREVIEW_LINES == 10

\* [:200] of the argument text of a tool_call event.
TOOL_CALL_CHARS == 200

\* "  ... (", " more lines)" of the preview.
MORE_OPEN ==
    <<" ", " ", ".", ".", ".", " ", "(">>

MORE_CLOSE ==
    <<" ", "m", "o", "r", "e", " ", "l", "i", "n", "e", "s", ")">>

\* The text before the event's text in the console line of a tool event; the
\* pictograph that stands for the kind of event is written "*".
DIM_OPEN ==
    <<" ", " ", "*", " ", "[", "d", "i", "m", "]">>

DIM_CLOSE ==
    <<"[", "/", "d", "i", "m", "]">>

\* The name of a parameter as text.
KeyText(key) ==
    CASE key = "path" -> <<"p", "a", "t", "h">>
      [] key = "content" -> <<"c", "o", "n", "t", "e", "n", "t">>
      [] key = "old_string" -> <<"o", "l", "d", "_", "s", "t", "r", "i", "n", "g">>
      [] key = "new_string" -> <<"n", "e", "w", "_", "s", "t", "r", "i", "n", "g">>
      [] key = "start_line" -> <<"s", "t", "a", "r", "t", "_", "l", "i", "n", "e">>
      [] key = "end_line" -> <<"e", "n", "d", "_", "l", "i", "n", "e">>
      [] key = "pattern" -> <<"p", "a", "t", "t", "e", "r", "n">>
      [] key = "include" -> <<"i", "n", "c", "l", "u", "d", "e">>
      [] key = "command" -> <<"c", "o", "m", "m", "a", "n", "d">>
      [] key = "timeout" -> <<"t", "i", "m", "e", "o", "u", "t">>
      [] key = "message" -> <<"m", "e", "s", "s", "a", "g", "e">>
      [] key = "summary" -> <<"s", "u", "m", "m", "a", "r", "y">>

\* The order in which the parameters of a mapping are written.
KeyOrder ==
    <<"path", "content", "old_string", "new_string", "start_line", "end_line", "pattern", "include", "command", "timeout", "message", "summary">>

\* The parameters whose values are numbers.
NumberParams == {"start_line", "end_line", "timeout"}

\* A character inside a JSON string (ensure_ascii=False).
JsonChar(c) ==
    CASE c = "\"" -> <<"\\", "\"">>
      [] c = "\\" -> <<"\\", "\\">>
      [] c = "\n" -> <<"\\", "n">>
      [] c = "\r" -> <<"\\", "r">>
      [] c = "\t" -> <<"\\", "t">>
      [] OTHER -> <<c>>

JsonString(s) ==
    <<"\"">> \o Flatten([i \in 1..Len(s) |-> JsonChar(s[i])]) \o <<"\"">>

JsonItem(kv, key) ==
    JsonString(KeyText(key)) \o <<":", " ">>
    \o (IF key \in NumberParams THEN Digits(kv[key]) ELSE JsonString(kv[key]))

\* json.dumps(fn_args, ensure_ascii=False) for the decoded mapping.
JsonDumps(fn_args) ==
    LET present == SelectSeq(KeyOrder, LAMBDA key : key \in DOMAIN fn_args.kv)
    IN  <<"{">>
        \o Join([i \in 1..Len(present) |-> JsonItem(fn_args.kv, present[i])],
                <<",", " ">>)
        \o <<"}">>

\* f"{fn_name}({json.dumps(fn_args, ensure_ascii=False)[:200]})"
ToolCallText(fn_name, fn_args) ==
    fn_name \o <<"(">> \o PySlice(JsonDumps(fn_args), 0, TOOL_CALL_CHARS) \o <<")">>

\* The preview of a tool result: its first ten lines and, when there are
\* more, the count of the rest.
Preview(content) ==
    LET lines == SplitLines(content)
    IN  Join(PySlice(lines, 0, PREVIEW_LINES), <<"\n">>)
        \o (IF Len(lines) > PREVIEW_LINES
            THEN <<"\n">> \o MORE_OPEN \o Digits(Len(lines) - PREVIEW_LINES)
                 \o MORE_CLOSE
            ELSE <<>>)

\* The line the console prints for a tool event.
ConsoleLine(role, content) ==
    DIM_OPEN \o (IF role = "tool_result" THEN Preview(content) ELSE content)
    \o DIM_CLOSE

\* The characters that can follow "[" in a markup tag.
TagStartChars ==
    {"a", "b", "c", "d", "e", "f", "g", "h", "i", "j", "k", "l", "m", "n", "o", "p",
     "q", "r", "s", "t", "u", "v", "w", "x", "y", "z", "#", "/", "@"}

\* The number of backslashes that stand directly before position i.
RECURSIVE BackslashesBefore(_, _)
BackslashesBefore(s, i) ==
    IF i > 1 /\ s[i - 1] = "\\" THEN 1 + BackslashesBefore(s, i - 1) ELSE 0

\* The first "]" at or after j with no "[" before it; 0 when there is none.
RECURSIVE TagClose(_, _)
TagClose(s, j) ==
    IF j > Len(s) THEN 0
    ELSE IF s[j] = "]" THEN j
    ELSE IF s[j] = "[" THEN 0
    ELSE TagClose(s, j + 1)

\* The index of the "]" that ends the tag opening at i; 0 when no tag opens
\* at i (an odd number of backslashes before "[" escapes it).
TagEnd(s, i) ==
    IF /\ s[i] = "["
       /\ i + 1 <= Len(s)
       /\ s[i + 1] \in TagStartChars
       /\ BackslashesBefore(s, i) % 2 = 0
    THEN TagClose(s, i + 2)
    ELSE 0

\* The name of a tag: the text before "=", stripped, in lower case.
TagName(text) ==
    LET eq == Find(text, <<"=">>, 1)
    IN  Lower(Strip(IF eq = 0 THEN text ELSE SubSeq(text, 1, eq - 1)))

\* The greatest index of the stack of open tags that holds name; 0 when none.
LastOpen(open, name) ==
    IF \E k \in 1..Len(open) : open[k] = name
    THEN CHOOSE k \in 1..Len(open) :
            open[k] = name /\ \A m \in (k + 1)..Len(open) : open[m] # name
    ELSE 0

Without(open, k) == SubSeq(open, 1, k - 1) \o SubSeq(open, k + 1, Len(open))

\* Rendering the markup s from position i with the tags of open not yet
\* closed raises MarkupError: a closing tag "[/name]" whose name is not open,
\* or "[/]" with nothing open.
RECURSIVE MarkupRaisesFrom(_, _, _)
MarkupRaisesFrom(s, i, open) ==
    IF i > Len(s) THEN FALSE
    ELSE IF TagEnd(s, i) = 0 THEN MarkupRaisesFrom(s, i + 1, open)
    ELSE IF s[i + 1] # "/"
    THEN MarkupRaisesFrom(s, TagEnd(s, i) + 1,
                          Append(open, TagName(SubSeq(s, i + 1, TagEnd(s, i) - 1))))
    ELSE IF TagName(SubSeq(s, i + 2, TagEnd(s, i) - 1)) = <<>>
    THEN open = <<>>
         \/ MarkupRaisesFrom(s, TagEnd(s, i) + 1, Without(open, Len(open)))
    ELSE LastOpen(open, TagName(SubSeq(s, i + 2, TagEnd(s, i) - 1))) = 0
         \/ MarkupRaisesFrom(s, TagEnd(s, i) + 1,
                Without(open,
                        LastOpen(open, TagName(SubSeq(s, i + 2, TagEnd(s, i) - 1)))))

MarkupRaises(s) == MarkupRaisesFrom(s, 1, <<>>)

\* emit(role, content) raises: only without a callback, and only for the
\* tool events, which the console prints as markup.
EmitRaises(callback, role, content) ==
    /\ ~callback
    /\ role \in {"tool_call", "tool_result"}
    /\ MarkupRaises(ConsoleLine(role, content))

\* A for loop that stops at the first completion sentinel.
RestOfTurn_BreakOnSentinel(calls, result) ==
    IF StartsWith(result, TASK_DONE_PREFIX) THEN <<>> ELSE Tail(calls)

\* for tool_call in msg.tool_calls: the calls left once a pass has recorded
\* its result; the sentinel does not end the loop.
RestOfTurn(calls, result) == Tail(calls)

\* The outcome of a pass that ended before the tool ran.
NotExecuted(files) == Returns(<<>>, files, "none")

\* A pass of the for loop once the tool has run: the tool_result event, then
\* the sentinel test and the tool message.
AfterExecute(callback, out) ==
    IF EmitRaises(callback, "tool_result", out.text)
    THEN [stage |-> "tool_result", exc |-> MarkupError, out |-> out]
    ELSE [stage |-> "recorded", exc |-> NoneVal, out |-> out]

\* One pass of the for loop for tool_call: up to which stage it gets, the
\* exception that ends it there, and the outcome of the tool if it ran.
ToolPass(callback, tool_call, files) ==
    IF ArgumentsRaise(tool_call.arguments)
    THEN [stage |-> "decode", exc |-> TypeError, out |-> NotExecuted(files)]
    ELSE IF EmitRaises(callback, "tool_call",
                       ToolCallText(tool_call.name, FnArgs(tool_call.arguments)))
    THEN [stage |-> "tool_call", exc |-> MarkupError, out |-> NotExecuted(files)]
    ELSE AfterExecute(callback,
                      Execute(tool_call.name, FnArgs(tool_call.arguments), files,
                              tool_call.proc))

\* One pass of the for loop: decode the arguments, execute, record.
\* The calls of on_message one pass of the for loop makes: none when the
\* arguments could not be decoded (the pass ends before line 145), else
\* emit("tool_call", ...) at 145 and, after execute, emit("tool_result", ...)
\* at 149.
AfterPass(callback, log, tool_call, pass) ==
    IF pass.stage = "decode"
    THEN log
    ELSE Delivered(callback,
             Delivered(callback, log, "tool_call",
                 ToolCallText(tool_call.name, FnArgs(tool_call.arguments)),
                 tool_call.id),
             "tool_result", pass.out.text, tool_call.id)

ExecuteToolCall ==
    /\ pc = "ExecutingTools"
    /\ pending # <<>>
    /\ UNCHANGED <<iteration, response, auto_commit, on_message, editors, bot,
                   free_calls,
                   provider_calls, commits>>
    /\ \E tool_call \in {Head(pending)} :
       \E pass \in {ToolPass(on_message, tool_call, fs)} :
          /\ events' = AfterPass(on_message, events, tool_call, pass)
          /\ IF pass.stage \in {"decode", "tool_call"}
             THEN UNCHANGED <<tool_runs, fs, last_exec>>
             ELSE /\ fs' = pass.out.fs
                  /\ tool_runs' = tool_runs + 1
                  /\ last_exec' = ExecRecord(tool_call.name,
                                             FnArgs(tool_call.arguments),
                                             tool_call.proc, pass.out)
          /\ IF pass.stage = "recorded"
             THEN /\ task_summary' = SummaryAfter(task_summary, pass.out.text)
                  /\ messages' = Append(messages,
                                        ToolMessage(tool_call, pass.out.text))
                  /\ pending' = RestOfTurn(pending, pass.out.text)
                  /\ UNCHANGED <<pc, run_result>>
             ELSE /\ run_result' = RaisedOut(pass.exc)
                  /\ pc' = "Raised"
                  /\ UNCHANGED <<messages, pending, task_summary>>

\* if task_summary:
CompletionPending(summary) == Truthy(summary)

\* {"message": f"feat: {task_summary[:72]}"}
CommitArgs(summary) ==
    [mapping |-> TRUE,
     kv |-> [message |-> COMMIT_FEAT \o PySlice(summary, 0, COMMIT_SUBJECT_CHARS)]]

\* emit("tool_result", commit_result) raises.
CommitEmitRaises(callback, commit_result) ==
    EmitRaises(callback, "tool_result", commit_result)

\* The end of a turn that commits without looking at auto_commit.
FinishTurn_CommitsWithoutFlag ==
    /\ pc = "ExecutingTools"
    /\ pending = <<>>
    /\ UNCHANGED <<iteration, messages, response, pending, task_summary,
                   auto_commit, on_message, editors, bot,
                   free_calls, provider_calls, tool_runs>>
    /\ IF CompletionPending(task_summary)
       THEN \E proc \in CommitProcs :
            \E args \in {CommitArgs(task_summary)} :
            \E out \in {Execute(N_git_commit, args, fs, proc)} :
               /\ commits' = Append(commits,
                      [message |-> args.kv.message, result |-> out.text])
               /\ fs' = out.fs
               /\ last_exec' = ExecRecord(N_git_commit, args, proc, out)
               /\ events' = Delivered(on_message, events, "tool_result",
                                      out.text, N_git_commit)
               /\ IF CommitEmitRaises(on_message, out.text)
                  THEN /\ pc' = "Raised"
                       /\ run_result' = RaisedOut(MarkupError)
                  ELSE /\ pc' = "Done"
                       /\ run_result' = Returned(task_summary)
       ELSE /\ pc' = "AwaitingModel"
            /\ UNCHANGED <<run_result, commits, fs, last_exec, events>>

\* The end of a turn where a commit that did not succeed becomes the result
\* of the run and the last message of the history.
FinishTurn_CommitFailureIsResult ==
    /\ pc = "ExecutingTools"
    /\ pending = <<>>
    /\ UNCHANGED <<iteration, response, pending, task_summary,
                   auto_commit, on_message, editors, bot,
                   free_calls, provider_calls, tool_runs>>
    /\ IF CompletionPending(task_summary)
       THEN IF auto_commit
            THEN \E proc \in CommitProcs :
                 \E args \in {CommitArgs(task_summary)} :
                 \E out \in {Execute(N_git_commit, args, fs, proc)} :
                    /\ commits' = Append(commits,
                           [message |-> args.kv.message, result |-> out.text])
                    /\ fs' = out.fs
                    /\ last_exec' = ExecRecord(N_git_commit, args, proc, out)
                    /\ events' = Delivered(on_message, events, "tool_result",
                                           out.text, N_git_commit)
                    /\ pc' = "Done"
                    /\ IF proc = Exited(0, <<>>, <<>>)
                       THEN /\ run_result' = Returned(task_summary)
                            /\ UNCHANGED messages
                       ELSE /\ run_result' = Returned(out.text)
                            /\ messages' = Append(messages,
                                   Message("tool", out.text, <<>>, NoneVal))
            ELSE /\ pc' = "Done"
                 /\ run_result' = Returned(task_summary)
                 /\ UNCHANGED <<messages, commits, fs, last_exec, events>>
       ELSE /\ pc' = "AwaitingModel"
            /\ UNCHANGED <<messages, run_result, commits, fs, last_exec, events>>

\* After the for loop: return the summary (committing first when configured)
\* or go round the while loop again.
FinishTurn ==
    /\ pc = "ExecutingTools"
    /\ pending = <<>>
    /\ UNCHANGED <<iteration, messages, response, pending, task_summary,
                   auto_commit, on_message, editors, bot,
                   free_calls, provider_calls, tool_runs>>
    /\ IF CompletionPending(task_summary)
       THEN IF auto_commit
            THEN \E proc \in CommitProcs :
                 \E args \in {CommitArgs(task_summary)} :
                 \E out \in {Execute(N_git_commit, args, fs, proc)} :
                    /\ commits' = Append(commits,
                           [message |-> args.kv.message, result |-> out.text])
                    /\ fs' = out.fs
                    /\ last_exec' = ExecRecord(N_git_commit, args, proc, out)
                    /\ events' = Delivered(on_message, events, "tool_result",
                                           out.text, N_git_commit)
                    /\ IF CommitEmitRaises(on_message, out.text)
                       THEN /\ pc' = "Raised"
                            /\ run_result' = RaisedOut(MarkupError)
                       ELSE /\ pc' = "Done"
                            /\ run_result' = Returned(task_summary)
            ELSE /\ pc' = "Done"
                 /\ run_result' = Returned(task_summary)
                 /\ UNCHANGED <<commits, fs, last_exec, events>>
       ELSE /\ pc' = "AwaitingModel"
            /\ UNCHANGED <<run_result, commits, fs, last_exec, events>>

\* The while test fails: the exhaustion message is returned.
ReturnExhausted ==
    /\ pc = "AwaitingModel"
    /\ iteration >= max_iterations
    /\ pc' = "Exhausted"
    /\ run_result' = Returned(EXHAUSTED_MESSAGE)
    /\ UNCHANGED <<iteration, messages, response, pending, task_summary,
                   auto_commit, on_message, editors, bot,
                   free_calls, provider_calls, tool_runs,
                   commits, fs, last_exec, events>>

Next == CallProvider \/ ExecuteToolCall \/ FinishTurn \/ ReturnExhausted

Spec == Init /\ [][Next]_vars

\* The invocations without a callback: emit prints on the console.
ConsoleSpec == ConsoleInit /\ [][Next]_vars

\* run_agent is one thread of control: while a step is possible, one is taken.
FairSpec == Spec /\ WF_vars(Next)

(***************************************************************************)
(* The executor used on its own: a caller holding a ToolExecutor calls     *)
(* execute with a tool name and an argument value, as run_agent and the    *)
(* chat front ends do.                                                     *)
(***************************************************************************)
\* The number of execute calls of one run of the executor on its own.
MaxToolUses == 2

\* Candidate paths: inside the root, missing, the parent, the sibling /pq and
\* a file in it, absolute inside and outside, and below a regular file.
P_f == <<"f">>

P_x == <<"x">>

P_d == <<"d">>

P_up == <<".", ".">>

P_sibling == <<".", ".", "/", "p", "q">>

P_sibling_file == <<".", ".", "/", "p", "q", "/", "s">>

P_abs_f == <<"/", "p", "/", "f">>

P_abs_out == <<"/", "e">>

P_under_file == <<"f", "/", "g">>

\* A file in the root whose name is the text of the completion marker.
P_marker == <<"_","_","T","A","S","K","_","D","O","N","E","_","_">>

ReadPaths ==
    {P_f, P_x, P_d, P_up, P_sibling, P_sibling_file, P_abs_f, P_abs_out, P_under_file}

WritePaths == {P_f, P_x, P_d, P_up, P_sibling_file, P_under_file, P_marker}

EditPaths == {P_f, P_x, P_d, P_up, P_sibling_file}

ListPaths == {P_f, P_x, P_d, P_up, P_sibling}

SearchPaths == {P_up, P_sibling}

\* Texts written: a line, a text with overlapping occurrences of "aa", a
\* text whose only line break is a carriage return.
WriteContents ==
    {<<"a", "\n">>, <<"a", "a">>, <<"a", "a", "a">>, <<"a", "\r", "b">>}

Edits ==
    {[old |-> <<"a">>, new |-> <<"c">>], [old |-> <<"z">>, new |-> <<"c">>],
     [old |-> <<"a", "a">>, new |-> <<"c">>]}

Mapping(kv) == [mapping |-> TRUE, kv |-> kv]

Use(name, args, proc) == [name |-> name, args |-> args, proc |-> proc]

FileUses ==
    {Use(N_read_file, Mapping([path |-> p]), NoProcess) : p \in ReadPaths}
    \cup {Use(N_read_file, Mapping([path |-> P_f, start_line |-> 2]), NoProcess)}
    \cup {Use(N_write_file, Mapping([path |-> p, content |-> c]), NoProcess) :
             p \in WritePaths, c \in WriteContents}
    \cup {Use(N_edit_file,
              Mapping([path |-> p, old_string |-> e.old, new_string |-> e.new]),
              NoProcess) : p \in EditPaths, e \in Edits}
    \cup {Use(N_list_dir, Mapping([path |-> p]), NoProcess) : p \in ListPaths}
    \cup {Use(N_list_dir, Mapping(<<>>), NoProcess)}

SearchUses ==
    {Use(N_search_code, Mapping([pattern |-> <<"a">>]), proc) :
        proc \in {NoProcess, ProgramMissing, TimedOut}}
    \cup {Use(N_search_code, Mapping([pattern |-> <<"k">>, path |-> p]), proc) :
             p \in SearchPaths, proc \in {NoProcess, ProgramMissing}}

ProcessUses ==
    {Use(N_run_command, Mapping([command |-> <<"l", "s">>]), proc) :
        proc \in {NoProcess, Exited(1, <<"o">>, <<"e">>), TimedOut}}
    \cup {Use(N_run_command, Mapping([command |-> <<"l", "s">>, timeout |-> 5]),
              TimedOut)}
    \cup {Use(N_git_commit, Mapping([message |-> <<"m">>]), proc) :
             proc \in CommitProcs}

\* An unknown tool, a missing argument, an unknown keyword, and an argument
\* value that is no mapping.
OtherUses ==
    {Use(N_task_done, Mapping([summary |-> c]), NoProcess) : c \in {<<>>, <<"o", "k">>}}
    \cup {Use(<<"z", "i", "p">>, Mapping(<<>>), NoProcess),
          Use(N_read_file, Mapping(<<>>), NoProcess),
          Use(N_task_done, Mapping([summary |-> <<"o", "k">>, extra |-> <<>>]),
              NoProcess),
          Use(N_list_dir, [mapping |-> FALSE, kv |-> <<>>], NoProcess)}

ToolUses == FileUses \cup SearchUses \cup ProcessUses \cup OtherUses

\* The executor is constructed on the project root and no run_agent runs.
ToolInit ==
    /\ pc = "NoRun"
    /\ iteration = 0
    /\ messages = <<>>
    /\ response = Response("none", NoneVal, NoneVal, <<>>)
    /\ pending = <<>>
    /\ task_summary = NoneVal
    /\ run_result = [kind |-> "running", value |-> NoneVal]
    /\ auto_commit = TRUE
    /\ on_message = TRUE
    /\ free_calls = 0
    /\ provider_calls = 0
    /\ tool_runs = 0
    /\ commits = <<>>
    /\ fs = InitialFs
    /\ last_exec = NoExec
    /\ events = <<>>
    /\ editors = NoEditors
    /\ bot = NoBot

\* executor.execute(name, args) called directly.
UseTool ==
    /\ pc = "NoRun"
    /\ tool_runs < MaxToolUses
    /\ \E use \in ToolUses :
       \E out \in {Execute(use.name, use.args, fs, use.proc)} :
          /\ fs' = out.fs
          /\ last_exec' = ExecRecord(use.name, use.args, use.proc, out)
    /\ tool_runs' = tool_runs + 1
    /\ UNCHANGED <<pc, iteration, messages, response, pending, task_summary,
                   run_result, auto_commit, on_message, editors, bot,
                   free_calls, provider_calls,
                   commits, events>>

ToolNext == UseTool

ToolSpec == ToolInit /\ [][ToolNext]_vars

(***************************************************************************)
(* Properties of the conversation driver.                                  *)
(***************************************************************************)
\* The positions of the assistant turns in a history.
AssistantIndexes(history) ==
    {i \in 1..Len(history) : history[i].role = "assistant"}

\* The assistant turns of a history that request tool calls.
ToolTurnIndexes(history) ==
    {i \in AssistantIndexes(history) : history[i].tool_calls # <<>>}

\* The position of the first assistant turn after position i, or one past
\* the end of the history.
NextAssistant(history, i) ==
    IF \E j \in AssistantIndexes(history) : j > i
    THEN CHOOSE j \in AssistantIndexes(history) :
            j > i /\ \A m \in AssistantIndexes(history) : m > i => j <= m
    ELSE Len(history) + 1

\* The positions of the tool messages that answer the call id.
Answers(history, id) ==
    {j \in 1..Len(history) :
        history[j].role = "tool" /\ history[j].tool_call_id = id}

\* The position of the last assistant turn (0 when there is none).
LastAssistant(history) ==
    IF AssistantIndexes(history) = {} THEN 0
    ELSE CHOOSE i \in AssistantIndexes(history) :
            \A m \in AssistantIndexes(history) : m <= i

\* The summaries of the completion sentinels among the tool results that
\* follow position i.
SummariesAfter(history, i) ==
    {SubSeq(history[j].content, Len(TASK_DONE_PREFIX) + 1, Len(history[j].content)) :
        j \in {n \in (i + 1)..Len(history) :
                 /\ history[n].role = "tool"
                 /\ StartsWith(history[n].content, TASK_DONE_PREFIX)}}

\* run_agent has returned or raised.
Ended == pc \in {"Done", "Exhausted", "Failed", "Raised"}

\* C1: an invocation makes at most max_iterations provider calls, and an
\* invocation whose max_iterations turns all requested tool calls, none of
\* which produced the completion sentinel, returns the exhaustion message
\* rather than raising.
C1_CapThenExhaustionMessage ==
    /\ provider_calls <= max_iterations
    /\ ( /\ Ended
         /\ Cardinality(ToolTurnIndexes(messages)) = max_iterations
         /\ SummariesAfter(messages, 0) = {} )
       => run_result = Returned(EXHAUSTED_MESSAGE)

\* C2: whenever run_agent can take no further step it is in one of the
\* terminal states Done, Exhausted, Failed.
C2_StopsOnlyInTerminalState ==
    ENABLED Next \/ pc \in {"Done", "Exhausted", "Failed"}

\* C3: at every provider call, each tool-call id requested by an assistant
\* turn of the history is answered by exactly one tool message, which lies
\* after that turn and before the next assistant turn.
C3_EveryCallAnsweredOnce ==
    (pc = "AwaitingModel" /\ iteration < max_iterations) =>
        \A i \in ToolTurnIndexes(messages) :
            \A k \in 1..Len(messages[i].tool_calls) :
                /\ Cardinality(Answers(messages, messages[i].tool_calls[k].id)) = 1
                /\ \A j \in Answers(messages, messages[i].tool_calls[k].id) :
                      i < j /\ j < NextAssistant(messages, i)

\* C3's case: a provider call is due after a turn of two tool calls.
C3_Witness ==
    /\ pc = "AwaitingModel"
    /\ iteration < max_iterations
    /\ \E i \in ToolTurnIndexes(messages) : Len(messages[i].tool_calls) = 2

\* C4: once every call of a turn is processed, a completion sentinel among
\* the turn's results ends the invocation in Done with the enclosed summary
\* as its result, whatever the summary string is.
C4_SentinelEndsInDone ==
    ( /\ pc \in {"AwaitingModel", "Done", "Exhausted"}
      /\ SummariesAfter(messages, LastAssistant(messages)) # {} )
    => /\ pc = "Done"
       /\ \A summary \in SummariesAfter(messages, LastAssistant(messages)) :
             run_result = Returned(summary)

\* C5: a turn without tool calls ends the invocation in Done, no tool runs
\* for it and no provider call follows; the result is the turn's text, or
\* the placeholder when the text is absent or empty.
C5_TextTurnIsTheResult ==
    (response.kind = "message" /\ response.tool_calls = <<>>) =>
        /\ pc = "Done"
        /\ pending = <<>>
        /\ messages[Len(messages)].role = "assistant"
        /\ messages[Len(messages)].content = response.content
        /\ Cardinality(AssistantIndexes(messages)) = provider_calls
        /\ run_result = Returned(IF response.content \in {NoneVal, <<>>}
                                 THEN NO_RESPONSE ELSE response.content)

\* C5's case: a turn with an empty text and no tool calls, after tools ran.
C5_Witness ==
    /\ response.kind = "message"
    /\ response.tool_calls = <<>>
    /\ response.content = <<>>
    /\ tool_runs > 0
    /\ run_result = Returned(NO_RESPONSE)

\* C6: run_agent never lets an exception out: every invocation that ends,
\* ends by returning.
C6_NeverPropagates == run_result.kind # "raise"

\* C7: a failing provider call ends the invocation at once: the state is
\* Failed, a text is returned, no tool runs, the history is not extended,
\* and nothing happens afterwards (no retry).
C7_FailureIsTerminal ==
    /\ [][(provider_calls' = provider_calls + 1 /\ response'.kind = "error")
            => /\ pc' = "Failed"
               /\ run_result'.kind = "return"
               /\ messages' = messages
               /\ tool_runs' = tool_runs]_vars
    /\ [][response.kind = "error"
            => /\ provider_calls' = provider_calls
               /\ tool_runs' = tool_runs
               /\ messages' = messages
               /\ pc' = "Failed"]_vars

\* C7's case: the provider call fails after an earlier turn ran a tool.
C7_Witness ==
    /\ pc = "Failed"
    /\ response.kind = "error"
    /\ provider_calls > 1
    /\ tool_runs > 0

\* C8 as stated: the result of a failed invocation is the provider's error
\* text itself.
C8_RawErrorText ==
    response.kind = "error" => run_result = Returned(response.error)

\* C8: the result of a failed invocation is "LLM API error: " followed by
\* the provider's error text, unchanged.
C8_PrefixedErrorText ==
    response.kind = "error" =>
        /\ run_result.kind = "return"
        /\ StartsWith(run_result.value, LLM_API_ERROR)
        /\ SubSeq(run_result.value, Len(LLM_API_ERROR) + 1, Len(run_result.value))
              = response.error

\* C8's case: a provider call failed with the error text "boom".
C8_Witness ==
    /\ pc = "Failed"
    /\ response.error = <<"b", "o", "o", "m">>
    /\ Len(run_result.value) = Len(LLM_API_ERROR) + 4

(***************************************************************************)
(* Properties of the tool executor.                                        *)
(***************************************************************************)
\* The failing cases of an execute call.
FailureKinds ==
    {"PathEscape", "NotFound", "WrongEntryType", "EditTargetMissing",
     "AmbiguousEdit", "CommandTimeout", "UnknownTool", "BadArguments",
     "CommitFailed"}

\* The last call was a commit whose git process exited with a non-zero status.
CommitExitedNonZero ==
    /\ last_exec.name = N_git_commit
    /\ last_exec.failure = "CommitFailed"
    /\ last_exec.proc.kind = "exit"

\* C9 as stated: execute never raises, and every failed operation, a failed
\* commit included, yields a text that starts with "Error: ".
C9_EveryFailureIsAnErrorText ==
    last_exec.name # NoneVal =>
        /\ ~last_exec.raised
        /\ last_exec.failure \in FailureKinds => StartsWith(last_exec.text, ERROR_PREFIX)

\* C9: execute never raises; every failed operation yields a text that
\* starts with "Error: ", except a commit whose git process exits with a
\* non-zero status, which yields "Git commit output: " and the raw output.
C9_FailuresAreTexts ==
    last_exec.name # NoneVal =>
        /\ ~last_exec.raised
        /\ (last_exec.failure \in FailureKinds /\ ~CommitExitedNonZero)
              => StartsWith(last_exec.text, ERROR_PREFIX)
        /\ CommitExitedNonZero
              => last_exec.text = GIT_COMMIT_OUTPUT \o last_exec.proc.out
                                     \o <<"\n">> \o last_exec.proc.err

\* C9's case: after a write made the edit target ambiguous, the edit fails
\* with an error text.
C9_Witness ==
    /\ last_exec.name = N_edit_file
    /\ last_exec.failure = "AmbiguousEdit"
    /\ StartsWith(last_exec.text, ERROR_PREFIX)

\* The tools that take a path.
PathTools == {N_read_file, N_write_file, N_edit_file, N_list_dir, N_search_code}

\* C10: a call of a path-taking tool whose path resolves to neither the
\* root nor a descendant of it fails with the path-escape error.
C10_EscapingPathsRejected ==
    ( /\ last_exec.name \in PathTools
      /\ Binds(last_exec.name, last_exec.args)
      /\ ~IsRelativeToRoot(Resolved(Arg(last_exec.args.kv, "path", <<".">>))) )
    => StartsWith(last_exec.text,
                  ERROR_PREFIX \o ValueError \o <<":", " ">> \o PATH_ESCAPES)

\* The positions (1-based) at which old occurs in text, overlaps included.
Positions(text, old) ==
    {i \in 1..(Len(text) - Len(old) + 1) : SubSeq(text, i, i + Len(old) - 1) = old}

\* text with the occurrence of old at position i replaced by new.
ReplacedAt(text, i, old, new) ==
    SubSeq(text, 1, i - 1) \o new \o SubSeq(text, i + Len(old), Len(text))

\* The step is a call of the tool name on an existing file below the root.
StepOnFile(name) ==
    /\ tool_runs' = tool_runs + 1
    /\ last_exec'.name = name
    /\ Binds(name, last_exec'.args)
    /\ IsRelativeToRoot(Resolved(last_exec'.args.kv.path))
    /\ IsFile(fs, Resolved(last_exec'.args.kv.path))

\* C11: edit_file on a file in which old_string occurs at no position fails
\* with the missing-target error, at two or more positions (overlapping
\* ones included) with the ambiguity error, both leaving the file system
\* unchanged; at exactly one position it succeeds and the file afterwards is
\* the original with that occurrence replaced by new_string.
C11_EditNeedsExactlyOneOccurrence ==
    [][StepOnFile(N_edit_file) =>
        LET fp == Resolved(last_exec'.args.kv.path)
            old == last_exec'.args.kv.old_string
            new == last_exec'.args.kv.new_string
            at == Positions(fs[fp].content, old)
        IN  /\ at = {} =>
                 /\ StartsWith(last_exec'.text, ERROR_PREFIX \o OLD_NOT_FOUND)
                 /\ fs' = fs
            /\ Cardinality(at) >= 2 =>
                 /\ StartsWith(last_exec'.text, ERROR_PREFIX \o OLD_FOUND)
                 /\ fs' = fs
            /\ \A i \in at : at = {i} =>
                 /\ StartsWith(last_exec'.text, OK_REPLACED)
                 /\ fs' = [fs EXCEPT ![fp] =
                               File(ReplacedAt(fs[fp].content, i, old, new))]
      ]_vars

\* The number of newline-delimited segments of a text: a final newline opens
\* no further segment.
Segments(content) ==
    IF content = <<>> THEN 0
    ELSE Len(Split(content, "\n")) - (IF content[Len(content)] = "\n" THEN 1 ELSE 0)

\* A text without its final newline, if it has one.
WithoutFinalNewline(content) ==
    IF content # <<>> /\ content[Len(content)] = "\n"
    THEN SubSeq(content, 1, Len(content) - 1)
    ELSE content

\* The text a read_file result stands for: the lines after the header, each
\* without its "nnnn | " column, joined by newlines.
Reconstructed(result) ==
    LET rows == Tail(Split(result, "\n"))
    IN  Join([i \in 1..Len(rows) |-> SubSeq(rows[i], 8, Len(rows[i]))], <<"\n">>)

\* The step reads, without bounds, the file the call before it wrote.
ReadsWhatWasWritten ==
    /\ tool_runs' = tool_runs + 1
    /\ last_exec.name = N_write_file
    /\ StartsWith(last_exec.text, OK_WROTE)
    /\ last_exec'.name = N_read_file
    /\ last_exec'.args.mapping
    /\ DOMAIN last_exec'.args.kv = {"path"}
    /\ Resolved(last_exec'.args.kv.path) = Resolved(last_exec.args.kv.path)

\* C12: write_file(path, content) followed by read_file(path) returns a
\* line-numbered text that stands for content (up to a final newline), and
\* the total the read reports is the number of newline-delimited segments
\* of content, which is also the line count the write reported.
C12_WriteReadRoundTrip ==
    [][ReadsWhatWasWritten =>
        LET content == last_exec.args.kv.content
            total == Digits(Segments(content))
        IN  /\ Reconstructed(last_exec'.text) = WithoutFinalNewline(content)
            /\ StartsWith(last_exec'.text,
                          FILE_HDR \o last_exec'.args.kv.path \o <<" ", "(">>
                          \o total \o LINES_TOTAL)
            /\ StartsWith(last_exec.text, OK_WROTE \o total \o LINES_TO)
      ]_vars

\* The rows of a listing: the lines after the header.
ListingRows(result) ==
    IF StartsWith(result, DIRECTORY_HDR) THEN Tail(Split(result, "\n")) ELSE <<>>

\* The name of the entry a row of a listing shows: the last component of the
\* path between the indentation and the "/" or "  (n bytes)" suffix.
RowName(row) ==
    LET shown == SubSeq(row, 3, Len(row))
        rel == IF EndsWith(shown, <<"/">>) THEN SubSeq(shown, 1, Len(shown) - 1)
               ELSE SubSeq(shown, 1, Find(shown, <<" ", " ", "(">>, 1) - 1)
        parts == Split(rel, "/")
    IN  parts[Len(parts)]

\* C13: the output of list_dir never shows an entry named .git,
\* __pycache__, .venv or venv.
C13_ListingHidesArtifacts ==
    last_exec.name = N_list_dir =>
        \A i \in 1..Len(ListingRows(last_exec.text)) :
            RowName(ListingRows(last_exec.text)[i]) \notin ArtifactNames

(***************************************************************************)
(* The for loop of run_agent, call by call (C14 to C20).                   *)
(***************************************************************************)
\* The for loop is about to take the next call of the turn.
AtCall == pc = "ExecutingTools" /\ pending # <<>>

\* The pass of the for loop just taken recorded its call: the tool message
\* with the id of the call and the text result is the new end of the
\* history, the rest of the turn is still to run and run_agent goes on.
Recorded(result) ==
    /\ messages' = Append(messages, Message("tool", result, <<>>, Head(pending).id))
    /\ pending' = Tail(pending)
    /\ pc' = "ExecutingTools"
    /\ run_result' = run_result

\* The turn is over without a completion summary: the while loop goes on.
TurnOverWithoutSummary ==
    pc = "ExecutingTools" /\ pending = <<>> /\ ~Truthy(task_summary)

\* The next call is a run_command whose child process exceeds its timeout.
AtTimeout ==
    /\ AtCall
    /\ Head(pending).name = N_run_command
    /\ Head(pending).arguments.wire = "object"
    /\ Head(pending).proc.kind = "timeout"

\* The timeout, in seconds, of the run_command call that is next.
TimeoutOfCall == Arg(Head(pending).arguments.kv, "timeout", DEFAULT_TIMEOUT)

\* C14: a run_command call that exceeds its timeout gives an error result
\* that contains the timeout duration; the result is appended as the tool
\* message of the call and run_agent goes on: the remaining calls of the turn
\* are still to run, and a turn that ends without a summary leads to the
\* next provider call.
C14_TimeoutIsAnErrorResult ==
    [][ /\ AtTimeout =>
            /\ last_exec'.proc.kind = "timeout"
            /\ StartsWith(last_exec'.text, ERROR_PREFIX)
            /\ Find(last_exec'.text, Digits(TimeoutOfCall) \o <<"s">>, 1) # 0
            /\ Recorded(last_exec'.text)
        /\ TurnOverWithoutSummary => pc' = "AwaitingModel" ]_vars

\* C14's case: a call timed out, the call after it in the turn was executed
\* too, and the provider is about to be called again.
C14_Witness ==
    /\ pc = "AwaitingModel"
    /\ \E j \in 1..(Len(messages) - 1) :
          /\ messages[j].role = "tool"
          /\ messages[j].content = ERROR_PREFIX \o TIMED_OUT \o <<"6", "0", "s">>
          /\ messages[j + 1].role = "tool"

\* C15: with the same task, configuration, provider responses and tool
\* outcomes, run_agent does the same with a callback as without one.  Two
\* invocations that agree so far stay in agreement when the next pass of
\* the for loop, and the commit after a completed turn, come out the same
\* whether on_message is given or not.
C15_CallbackMakesNoDifference ==
    /\ AtCall => ToolPass(TRUE, Head(pending), fs) = ToolPass(FALSE, Head(pending), fs)
    /\ ( /\ pc = "ExecutingTools"
         /\ pending = <<>>
         /\ CompletionPending(task_summary)
         /\ auto_commit )
       => \A proc \in CommitProcs :
             CommitEmitRaises(TRUE, Execute(N_git_commit, CommitArgs(task_summary),
                                            fs, proc).text)
             = CommitEmitRaises(FALSE, Execute(N_git_commit, CommitArgs(task_summary),
                                               fs, proc).text)

\* C16: the result run_agent returns when a task_done call completed the
\* task never starts with the sentinel prefix "__TASK_DONE__:", whatever
\* the summary passed to task_done was.
C16_ResultWithoutSentinelPrefix ==
    (pc = "Done" /\ CompletionPending(task_summary)) =>
        ~StartsWith(run_result.value, TASK_DONE_PREFIX)

\* The position of the last assistant turn at or before position i, found
\* from the end of the history (0 when there is none).
RECURSIVE AssistantBefore(_, _)
AssistantBefore(history, i) ==
    IF i = 0 THEN 0
    ELSE IF history[i].role = "assistant" THEN i
    ELSE AssistantBefore(history, i - 1)

\* The position of the last assistant turn of the history of the invocation.
TurnStart == AssistantBefore(messages, Len(messages))

\* The calls of the last assistant turn of the history.
LastTurnCalls == messages[TurnStart].tool_calls

\* Every call of the last assistant turn has its tool message after the turn.
LastTurnAnswered ==
    \A k \in 1..Len(LastTurnCalls) :
        \E j \in Answers(messages, LastTurnCalls[k].id) : j > TurnStart

AnsweredSoFar == Len(messages) - TurnStart

\* C18: within a turn the calls are executed one at a time in the order the
\* provider listed them.  At every moment the messages after the turn are
\* the tool messages of its first calls, in the order of the calls; the calls
\* still to run are the rest of the turn, in order; and while the for loop
\* runs, the call executed last is the one answered last, so each tool
\* message is in the history before the next call starts.
C18_CallsAnsweredInOrder ==
    (TurnStart > 0 /\ LastTurnCalls # <<>>) =>
        /\ AnsweredSoFar <= Len(LastTurnCalls)
        /\ \A k \in 1..AnsweredSoFar :
              /\ messages[TurnStart + k].role = "tool"
              /\ messages[TurnStart + k].tool_call_id
                 = LastTurnCalls[k].id
        /\ pc \in {"ExecutingTools", "Raised"} =>
              /\ Len(pending) = Len(LastTurnCalls) - AnsweredSoFar
              /\ \A k \in 1..Len(pending) :
                    pending[k].id = LastTurnCalls[AnsweredSoFar + k].id
        /\ (pc = "ExecutingTools" /\ AnsweredSoFar > 0) =>
              /\ last_exec.name = LastTurnCalls[AnsweredSoFar].name
              /\ last_exec.text = messages[Len(messages)].content

\* C18's case: a turn of two calls of different tools has been executed and
\* both are answered.
C18_Witness ==
    /\ pc = "ExecutingTools"
    /\ pending = <<>>
    /\ Len(LastTurnCalls) = 2
    /\ LastTurnCalls[1].name # LastTurnCalls[2].name
    /\ AnsweredSoFar = 2

\* The argument text of the next call is not the JSON text of a mapping.
AtMalformed == AtCall /\ Head(pending).arguments.wire # "object"

\* C19: a tool call whose argument encoding is malformed is dispatched with
\* the empty argument mapping and never aborts the loop: the tool is called
\* with no arguments, its result is appended as the tool message of the
\* call, and the rest of the turn and run_agent go on.
C19_MalformedArgumentsRunEmpty ==
    [][ AtMalformed =>
            /\ tool_runs' = tool_runs + 1
            /\ last_exec'.name = Head(pending).name
            /\ last_exec'.args = [mapping |-> TRUE, kv |-> <<>>]
            /\ Recorded(last_exec'.text) ]_vars

\* The next call names a tool that ToolExecutor does not have.
AtUnknownTool ==
    /\ AtCall
    /\ Head(pending).name \notin ToolNames
    /\ Head(pending).arguments.wire = "object"

\* C20: a call of a tool that is not in the catalog gives the text
\* "Error: Unknown tool '<name>'"; it is appended as the tool message of the
\* call, nothing is raised, and run_agent goes on with the next call of the
\* turn or, the turn over without a summary, with the next provider call.
C20_UnknownToolIsAnErrorResult ==
    [][ /\ AtUnknownTool =>
            /\ last_exec'.text
               = ERROR_PREFIX \o UNKNOWN_TOOL \o Head(pending).name \o <<"'">>
            /\ ~last_exec'.raised
            /\ fs' = fs
            /\ Recorded(last_exec'.text)
        /\ TurnOverWithoutSummary => pc' = "AwaitingModel" ]_vars

\* C20's case: an unknown tool was called, the call after it in the turn was
\* executed too, and the provider is about to be called again.
C20_Witness ==
    /\ pc = "AwaitingModel"
    /\ \E j \in 1..(Len(messages) - 1) :
          /\ messages[j].role = "tool"
          /\ messages[j].content
             = ERROR_PREFIX \o UNKNOWN_TOOL \o UnknownTool.name \o <<"'">>
          /\ messages[j + 1].role = "tool"

(***************************************************************************)
(* The history, the auxiliary commit and the events (C21 to C27).          *)
(***************************************************************************)
\* earlier is a prefix of later.
IsPrefix(earlier, later) ==
    Len(earlier) <= Len(later) /\ SubSeq(later, 1, Len(earlier)) = earlier

\* C21: the history starts as exactly the system prompt followed by the
\* user's task, and it is append-only: every step leaves the history it
\* found as a prefix of the new one.  The history given to a provider call
\* is the history of that moment, so it is a prefix of the history given to
\* every later provider call.
C21_HistoryIsAppendOnly ==
    /\ Len(messages) = 2
    /\ messages[1].role = "system" /\ messages[1].content = SYSTEM_PROMPT
    /\ messages[2].role = "user" /\ messages[2].content = Task
    /\ [][IsPrefix(messages, messages')]_vars

\* C21's case: a second provider call has been made on a history that grew
\* by an assistant turn and its tool message.
C21_Witness ==
    /\ provider_calls = 2
    /\ Len(messages) >= 5
    /\ messages[3].role = "assistant"
    /\ messages[4].role = "tool"


\* The step issues the driver's auxiliary commit.
CommitIssued == commits' # commits

\* C22: the driver issues its auxiliary git_commit at most once in a run,
\* and only at the end of a turn that recorded a completion summary, with
\* auto_commit enabled, as the last thing the run does before it returns the
\* summary.  A run that ends Exhausted or Failed, or Done by a turn without
\* tool calls, has issued none.
C22_CommitOnlyOnSentinelCompletion ==
    /\ [](Len(commits) <= 1)
    /\ [][CommitIssued =>
            /\ commits = <<>>
            /\ auto_commit
            /\ pc = "ExecutingTools" /\ pending = <<>>
            /\ task_summary # NoneVal /\ task_summary # <<>>
            /\ messages[Len(messages)].role = "tool"
            /\ pc' = "Done"
            /\ run_result' = Returned(task_summary)]_vars
    /\ [](pc \in {"Exhausted", "Failed"} => commits = <<>>)
    /\ [](pc = "Done" /\ messages[Len(messages)].role = "assistant"
             => commits = <<>>)
    /\ [](pc = "Done" /\ ~auto_commit => commits = <<>>)

\* C22's case: a run completed through the sentinel with auto_commit enabled
\* and the one commit was issued.
C22_Witness ==
    /\ pc = "Done"
    /\ auto_commit
    /\ Len(commits) = 1
    /\ run_result = Returned(task_summary)


\* The positions of the events of one kind that report one execution.
EventsOf(role, execution) ==
    {i \in 1..Len(events) :
        events[i].role = role /\ events[i].execution = execution}

\* The executions the events report.
ReportedExecutions ==
    {events[i].execution : i \in 1..Len(events)} \ {NoneVal}

\* C27: in the events given to the callback every "tool_result" event comes
\* directly after the "tool_call" event of the same execution, and every
\* execution of a tool (by the for loop or the auxiliary commit) has exactly
\* one event of each kind.
C27_EveryResultFollowsItsCall ==
    on_message =>
        /\ \A i \in 1..Len(events) :
              events[i].role = "tool_result" =>
                 /\ i > 1
                 /\ events[i - 1].role = "tool_call"
                 /\ events[i - 1].execution = events[i].execution
        /\ \A e \in ReportedExecutions :
              /\ Cardinality(EventsOf("tool_call", e)) = 1
              /\ Cardinality(EventsOf("tool_result", e)) = 1
        /\ Cardinality(ReportedExecutions) = tool_runs + Len(commits)


\* The result of the auxiliary commit the step issues.
CommitResult == commits'[Len(commits')].result

\* C23: an auxiliary commit that fails does not fail the run: the step that
\* issued it ends the run Done with the completion summary as it was, adds
\* nothing to the history, and hands the commit's outcome to the callback
\* as one "tool_result" event, its only trace.
C23_FailingCommitIsSwallowed ==
    [][(CommitIssued /\ ~StartsWith(CommitResult, OK_COMMITTED)) =>
            /\ pc' = "Done"
            /\ task_summary' = task_summary
            /\ run_result' = Returned(task_summary)
            /\ messages' = messages
            /\ events' = Append(events,
                                Event("tool_result", CommitResult, N_git_commit))]_vars

\* C23's case: the run completed although git commit exited with status 1.
C23_Witness ==
    /\ pc = "Done"
    /\ Len(commits) = 1
    /\ StartsWith(commits[1].result, GIT_COMMIT_OUTPUT)
    /\ run_result = Returned(task_summary)
    /\ events[Len(events)].content = commits[1].result


(***************************************************************************)
(* The results of the tools (C25 and C26).                                 *)
(***************************************************************************)
\* The part of a reported line before its first colon: the file of the match.
ReportedFile(line) ==
    IF Find(line, <<":">>, 1) = 0 THEN <<>>
    ELSE SubSeq(line, 1, Find(line, <<":">>, 1) - 1)

\* The reported line names a file below a directory that is an artifact.
FromArtifact(line) ==
    LET parts == Split(ReportedFile(line), "/")
    IN  \E k \in 1..(Len(parts) - 1) : parts[k] \in ArtifactNames

\* The last call ran search_code and it reported matches.
SearchReported ==
    /\ last_exec.name = N_search_code
    /\ last_exec.failure = "none"
    /\ ~StartsWith(last_exec.text, NO_MATCHES)

\* C25: search_code reports no match from a file inside .git, __pycache__,
\* .venv or venv, with grep as with the fallback walk, and it reports at most
\* 50 matches.
C25_SearchSkipsArtifacts ==
    SearchReported =>
        /\ \A k \in 1..Len(Split(last_exec.text, "\n")) :
              ~FromArtifact(Split(last_exec.text, "\n")[k])
        /\ Len(Split(last_exec.text, "\n")) <= MAX_RESULTS


\* C26: only task_done gives a result that starts with the completion
\* marker "__TASK_DONE__:", so a run ends through the marker only by a
\* task_done call: the result of every other tool, and every error result,
\* starts otherwise.
C26_OnlyTaskDoneGivesTheSentinel ==
    (last_exec.name # NoneVal /\ last_exec.name # N_task_done)
        => ~StartsWith(last_exec.text, TASK_DONE_PREFIX)


(***************************************************************************)
(* Two runs at once on one project root (C24).  Each run is a thread or a  *)
(* process of its own (the Telegram front end runs run_agent on a worker   *)
(* thread, the command line in its own process), each with its own         *)
(* ToolExecutor on the same directory, and nothing locks a file.  Each run *)
(* is at an edit_file call; a call reads the file, counts and replaces in  *)
(* the text it holds, and later writes that text back.                     *)
(***************************************************************************)
Editors == {"first", "second"}

\* The edit_file calls the two runs make, on the file f or on a missing
\* file: replacements that do not touch each other, one that makes the
\* other's old_string ambiguous, and one whose old_string is not there.
RaceEdits ==
    {[path |-> p, old_string |-> e.old, new_string |-> e.new] :
        p \in {P_f, P_x},
        e \in {[old |-> <<"a">>, new |-> <<"c">>], [old |-> <<"b">>, new |-> <<"d">>],
               [old |-> <<"a">>, new |-> <<"b">>], [old |-> <<"z">>, new |-> <<"c">>]}}

\* A call not made yet.
IdleEditor ==
    [at |-> "idle", kv |-> <<>>, text |-> NoneVal, new_text |-> NoneVal,
     result |-> NoneVal]

\* text = fp.read_text(encoding="utf-8")
EditReadText(kv, files) == UniversalNewlines(files[Resolved(kv.path)].content)

\* A write that edits the file as it is at the time of the write.
EditWrites_OnFreshRead(files, editor) ==
    WriteText(files, Resolved(editor.kv.path),
              ReplaceFirst(EditReadText(editor.kv, files),
                           editor.kv.old_string, editor.kv.new_string))

\* fp.write_text(new_text, encoding="utf-8"): new_text is the text the call
\* built from its own earlier read.
EditWrites(files, editor) ==
    WriteText(files, Resolved(editor.kv.path), editor.new_text)

\* The call up to its write: the checks, the read, the count and the
\* replacement in memory, on the file as it is now.  A call that fails
\* returns here; one that found exactly one occurrence holds new_text.
EditFileReads ==
    \E t \in Editors :
    \E kv \in RaceEdits :
    \E out \in {Execute(N_edit_file, Mapping(kv), fs, NoProcess)} :
       /\ pc = "Race"
       /\ editors[t].at = "idle"
       /\ editors' = [editors EXCEPT ![t] =
              IF out.failure # "none"
              THEN [at |-> "done", kv |-> kv, text |-> NoneVal,
                    new_text |-> NoneVal, result |-> out.text]
              ELSE [at |-> "read", kv |-> kv, text |-> EditReadText(kv, fs),
                    new_text |-> ReplaceFirst(EditReadText(kv, fs),
                                              kv.old_string, kv.new_string),
                    result |-> NoneVal]]
       /\ UNCHANGED <<pc, iteration, messages, response, pending, task_summary,
                      run_result, auto_commit, on_message, bot, free_calls,
                      provider_calls, tool_runs, commits, fs, last_exec, events>>

\* The write and the return of "OK: Replaced 1 occurrence in {path}".
EditFileWrites ==
    \E t \in Editors :
       /\ pc = "Race"
       /\ editors[t].at = "read"
       /\ fs' = EditWrites(fs, editors[t])
       /\ editors' = [editors EXCEPT ![t].at = "done",
                                     ![t].result = OK_REPLACED \o editors[t].kv.path]
       /\ UNCHANGED <<pc, iteration, messages, response, pending, task_summary,
                      run_result, auto_commit, on_message, bot, free_calls,
                      provider_calls, tool_runs, commits, last_exec, events>>

\* Two executors on the project root, each about to run one edit_file.
RaceInit ==
    /\ pc = "Race"
    /\ iteration = 0
    /\ messages = <<>>
    /\ response = Response("none", NoneVal, NoneVal, <<>>)
    /\ pending = <<>>
    /\ task_summary = NoneVal
    /\ run_result = [kind |-> "running", value |-> NoneVal]
    /\ auto_commit = TRUE
    /\ on_message = TRUE
    /\ free_calls = 0
    /\ provider_calls = 0
    /\ tool_runs = 0
    /\ commits = <<>>
    /\ fs = InitialFs
    /\ last_exec = NoExec
    /\ events = <<>>
    /\ editors = [t \in Editors |-> IdleEditor]
    /\ bot = NoBot

RaceNext == EditFileReads \/ EditFileWrites

RaceSpec == RaceInit /\ [][RaceNext]_vars

\* The call reported success.
EditSucceeded(t) ==
    /\ editors[t].at = "done"
    /\ StartsWith(editors[t].result, OK_REPLACED)

\* The file holds the text the call wrote.
HoldsEditOf(t) ==
    fs = WriteText(fs, Resolved(editors[t].kv.path), editors[t].new_text)

\* Both calls succeeded on one file after reading the same text of it: neither
\* saw the other's write.
BothEditedOneRead ==
    /\ \A t \in Editors : EditSucceeded(t)
    /\ Resolved(editors["first"].kv.path) = Resolved(editors["second"].kv.path)
    /\ editors["first"].text = editors["second"].text
    /\ editors["first"].new_text # editors["second"].new_text

\* C24: edit_file's read, count and write are not one atomic step, so two
\* runs on one root can race: when both calls read the file before either
\* wrote, both report success and the file is left with the text of one of
\* them only; the replacement of the other is lost.
C24_ConcurrentEditsLoseAnUpdate ==
    BothEditedOneRead =>
        \E t \in Editors : \E u \in Editors \ {t} :
            HoldsEditOf(t) /\ ~HoldsEditOf(u)

\* C24's case: one call replaced "a" by "c", the other "b" by "d", both
\* reported success, and the file still holds "a": the first replacement
\* is lost.
C24_Witness ==
    /\ \A t \in Editors : EditSucceeded(t)
    /\ editors["first"].kv = [path |-> P_f, old_string |-> <<"a">>,
                              new_string |-> <<"c">>]
    /\ editors["second"].kv = [path |-> P_f, old_string |-> <<"b">>,
                               new_string |-> <<"d">>]
    /\ fs[Resolved(P_f)].content = <<"a", "\n", "d">>


(***************************************************************************)
(* The Telegram front end (C28): TelegramBot's handlers, one action each.  *)
(* run_agent is taken as one step of the handler that calls it: what       *)
(* matters here is whether it is called, and for whom.                     *)
(***************************************************************************)
\* The number of updates the bot handles in a run of the model.
MaxUpdates == 3

\* config.telegram.allowed_users: empty, an id, a username, both.
AllowLists ==
    {<<>>, << <<"7">> >>, << <<"a", "n", "n">> >>, << <<"7">>, <<"a", "n", "n">> >>}

\* update.effective_user: id and username (None for a user without one).
BotUsers ==
    {[id |-> 7, username |-> <<"a", "n", "n">>],
     [id |-> 8, username |-> <<"b", "o", "b">>],
     [id |-> 9, username |-> NoneVal]}

\* The values of a list.
Listed(list) == {list[i] : i \in 1..Len(list)}

\* A handler that lets a user without a username through.
IsAllowed_UnnamedPass(allowed, user_id, username) ==
    IF allowed = <<>> THEN TRUE
    ELSE \/ user_id \in Listed(allowed)
         \/ username = NoneVal
         \/ username \in Listed(allowed)

\* _is_allowed(user_id, username), as the truth value the callers test.
IsAllowed(allowed, user_id, username) ==
    IF allowed = <<>> THEN TRUE
    ELSE \/ user_id \in Listed(allowed)
         \/ (Truthy(username) /\ username \in Listed(allowed))

\* self._is_allowed(str(user.id), user.username)
UserAllowed(user) == IsAllowed(bot.allowed_users, Digits(user.id), user.username)

\* The handler has run for an update of this kind from this user.
Handled(kind, user, text) ==
    Append(bot.updates, [kind |-> kind, user |-> user, text |-> text])

\* update.message.reply_text(...) or thinking_msg.edit_text(...)
Replied(user, what) == Append(bot.replies, [user |-> user, what |-> what])

\* executor.execute("list_dir", {"path": "."}) for this user.
Listing(user) ==
    Append(bot.executions,
           [user |-> user, name |-> N_list_dir,
            result |-> Execute(N_list_dir, Mapping([path |-> <<".">>]), fs,
                               NoProcess).text])

BotUnchanged ==
    UNCHANGED <<pc, iteration, messages, response, pending, task_summary,
                run_result, auto_commit, on_message, editors, free_calls,
                provider_calls, tool_runs, commits, fs, last_exec, events>>

\* _cmd_start
CmdStart ==
    /\ pc = "Bot"
    /\ Len(bot.updates) < MaxUpdates
    /\ \E user \in BotUsers :
          bot' = [bot EXCEPT
                    !.updates = Handled("start", user, NoneVal),
                    !.replies = IF UserAllowed(user)
                                THEN Replied(user, "welcome")
                                ELSE Replied(user, "refused")]
    /\ BotUnchanged

\* _cmd_status
CmdStatus ==
    /\ pc = "Bot"
    /\ Len(bot.updates) < MaxUpdates
    /\ \E user \in BotUsers :
          IF UserAllowed(user)
          THEN bot' = [bot EXCEPT
                         !.updates = Handled("status", user, NoneVal),
                         !.executions = Listing(user),
                         !.replies = Replied(user, "status")]
          ELSE bot' = [bot EXCEPT !.updates = Handled("status", user, NoneVal)]
    /\ BotUnchanged

\* _cmd_project
CmdProject ==
    /\ pc = "Bot"
    /\ Len(bot.updates) < MaxUpdates
    /\ \E user \in BotUsers :
          IF UserAllowed(user)
          THEN bot' = [bot EXCEPT
                         !.updates = Handled("project", user, NoneVal),
                         !.executions = Listing(user),
                         !.replies = Replied(user, "tree")]
          ELSE bot' = [bot EXCEPT !.updates = Handled("project", user, NoneVal)]
    /\ BotUnchanged

\* _handle_message: the refusal, or the "working" reply, run_agent on a
\* worker thread, and the reply with its result or with its exception.
HandleMessage ==
    /\ pc = "Bot"
    /\ Len(bot.updates) < MaxUpdates
    /\ \E user \in BotUsers :
       \E text \in {Task} :
       \E outcome \in {"result", "error"} :
          IF ~UserAllowed(user)
          THEN /\ outcome = "result"
               /\ bot' = [bot EXCEPT !.updates = Handled("text", user, text),
                                     !.replies = Replied(user, "refused")]
          ELSE IF text = <<>>
          THEN /\ outcome = "result"
               /\ bot' = [bot EXCEPT !.updates = Handled("text", user, text)]
          ELSE bot' = [bot EXCEPT
                         !.updates = Handled("text", user, text),
                         !.runs = Append(bot.runs, [user |-> user, task |-> text]),
                         !.replies = Append(Replied(user, "working"),
                                            [user |-> user, what |-> outcome])]
    /\ BotUnchanged

\* TelegramBot(config) with its handlers registered, before any update.
BotInit ==
    /\ pc = "Bot"
    /\ iteration = 0
    /\ messages = <<>>
    /\ response = Response("none", NoneVal, NoneVal, <<>>)
    /\ pending = <<>>
    /\ task_summary = NoneVal
    /\ run_result = [kind |-> "running", value |-> NoneVal]
    /\ auto_commit = TRUE
    /\ on_message = TRUE
    /\ free_calls = 0
    /\ provider_calls = 0
    /\ tool_runs = 0
    /\ commits = <<>>
    /\ fs = InitialFs
    /\ last_exec = NoExec
    /\ events = <<>>
    /\ editors = NoEditors
    /\ \E allowed \in AllowLists :
          bot = [allowed_users |-> allowed, updates |-> <<>>, runs |-> <<>>,
                 executions |-> <<>>, replies |-> <<>>]

BotNext == CmdStart \/ CmdStatus \/ CmdProject \/ HandleMessage

BotSpec == BotInit /\ [][BotNext]_vars

\* Neither the user's id nor the user's name is in the allow-list.
Unlisted(user) ==
    /\ \A i \in 1..Len(bot.allowed_users) :
          bot.allowed_users[i] # Digits(user.id)
    /\ \A i \in 1..Len(bot.allowed_users) :
          bot.allowed_users[i] # user.username

\* The text messages handled so far.
TextUpdates == {i \in 1..Len(bot.updates) : bot.updates[i].kind = "text"}

\* C28: with a non-empty allow-list no agent run and no tool execution is
\* ever made for a user whose id and username are both absent from the list,
\* whatever messages and commands arrive; with an empty allow-list every
\* text message starts a run.
C28_UnlistedUsersStartNothing ==
    /\ bot.allowed_users # <<>> =>
          /\ \A i \in 1..Len(bot.runs) : ~Unlisted(bot.runs[i].user)
          /\ \A i \in 1..Len(bot.executions) : ~Unlisted(bot.executions[i].user)
    /\ bot.allowed_users = <<>> =>
          Len(bot.runs) = Cardinality(TextUpdates)

\* C28's case: the allow-list is not empty, an unlisted user has sent a text
\* message and a command, and nothing was run or executed.
C28_Witness ==
    /\ bot.allowed_users # <<>>
    /\ \E i \in TextUpdates : Unlisted(bot.updates[i].user)
    /\ \E i \in 1..Len(bot.updates) :
          bot.updates[i].kind = "project" /\ Unlisted(bot.updates[i].user)
    /\ bot.runs = <<>>
    /\ bot.executions = <<>>

=============================================================================
